---- MODULE Spec2Model ----
(***************************************************************************)
(* Case.dev client layer of Thurgood Desktop: the credential resolver      *)
(* (CaseDevClient.getApiKey), the request executor (CaseDevClient.request),*)
(* CaseDevClient.uploadFile and the tools built on them, with the vault    *)
(* upload pipeline (VaultUploadTool.execute) step by step.                 *)
(*                                                                         *)
(* One step of the model is the code that runs between two awaits of one   *)
(* invocation; getApiKey is taken as one read of the three sources.        *)
(***************************************************************************)
EXTENDS Integers, Sequences, FiniteSets, TLC

VARIABLES
    processEnv,   \* process.env: THURGOOD_API_KEY and CASEDEV_API_KEY
    authStore,    \* what Auth.get("thurgood") answers
    config,       \* what Config.get() answers for provider.thurgood.options.apiKey
    resolved,     \* the result of the last getApiKey() call made on its own
    calls,        \* the invocations in progress, by call id
    jobs,         \* the backend's OCR and transcription job, and its transcript
    disk,         \* the bytes of the local file at file_path
    vault         \* the objects the blob storage holds, by object id

vars == <<processEnv, authStore, config, resolved, calls, jobs, disk, vault>>

credVars == <<processEnv, authStore, config>>

(***************************************************************************)
(* Bounds of the model.                                                    *)
(***************************************************************************)
MaxCalls == 2

CallIds == 1..MaxCalls

\* Spec follows one invocation at a time, as call 1; SpecExecutor runs the
\* request executor on every call id at once.
Foreground == {c \in CallIds : c = 1}

\* SpecJobs polls the jobs from two call ids, an earlier and a later poll.
Pollers == {c \in CallIds : c <= 2}

(***************************************************************************)
(* JavaScript values.                                                      *)
(***************************************************************************)
Undefined == "undefined"

\* The lookup rejected: Auth.get / Config.get are awaited with no catch.
Throws == "throws"

Keys == {"k1", "k2"}

Null == "null"

Truthy(s) == s \notin {Undefined, Null, ""}

\* a ?? b
Coalesce(a, b) == IF a # Undefined THEN a ELSE b

EnvValues == {Undefined, ""} \cup Keys

(***************************************************************************)
(* Bytes and text.  A file and a response body are sequences of bytes; a   *)
(* string is a sequence of code points.  The bytes of the model are 65, an *)
(* ASCII letter, and 200, which no UTF-8 text holds on its own.            *)
(***************************************************************************)
ReplacementCharacter == 65533

RECURSIVE decodeText(_)
\* TextDecoder / response.text(): UTF-8 bytes to a string, a byte that is no
\* UTF-8 becomes U+FFFD.
decodeText(bytes) ==
    IF bytes = <<>> THEN <<>>
    ELSE <<IF Head(bytes) < 128 THEN Head(bytes) ELSE ReplacementCharacter>>
            \o decodeText(Tail(bytes))

RECURSIVE encodeText(_)
\* A string written as UTF-8: U+FFFD takes the three bytes EF BF BD.
encodeText(string) ==
    IF string = <<>> THEN <<>>
    ELSE (IF Head(string) < 128 THEN <<Head(string)>> ELSE <<239, 191, 189>>)
            \o encodeText(Tail(string))

AuthRecord(type, key) == [type |-> type, key |-> key]

AuthValues ==
    {AuthRecord(Undefined, Undefined), AuthRecord("oauth", Undefined),
     AuthRecord(Throws, Undefined)}
        \cup {AuthRecord("api", k) : k \in Keys \cup {""}}

ConfigValues == {Undefined, "", Throws} \cup Keys

Return(v) == [tag |-> "return", val |-> v]

Throw(e) == [tag |-> "throw", val |-> e]

NoResult == [tag |-> "none", val |-> Undefined]

(***************************************************************************)
(* CaseDevClient.getApiKey                                                 *)
(***************************************************************************)
envKey(e) == Coalesce(e.THURGOOD_API_KEY, e.CASEDEV_API_KEY)

getApiKey(e, a, c) ==
    IF Truthy(envKey(e)) THEN Return(envKey(e))
    ELSE IF a.type = Throws THEN Throw("AuthStoreError")
    ELSE IF a.type = "api" THEN Return(a.key)
    ELSE IF c = Throws THEN Throw("ConfigError")
    ELSE IF Truthy(c) THEN Return(c)
    ELSE Return(Undefined)

(***************************************************************************)
(* Invocations.                                                            *)
(*   op       the tool (or client function) invoked, "none" for a free slot*)
(*   pc       the await the invocation is suspended at                     *)
(*   params   the caller's parameters the later steps read                 *)
(*   ex       the exchange of the request() call in progress               *)
(*   settled  how the last request() call of the invocation settled        *)
(*   session  uploadResponse of the upload                                 *)
(*   result   what the invocation returned or threw                        *)
(*   log      the network exchanges the invocation has issued, in order,   *)
(*            each with the bearer key it carried                          *)
(*   s3Status the status of s3Response, 0 before the transfer answered     *)
(*   stages   the stages of the upload pipeline passed so far, in order    *)
(***************************************************************************)
DefaultTimeout == 30000

TranscribeTimeout == 30000

FastTimeout == 60000

NormalTimeout == 180000

ProTimeout == 360000

\* response.ok
ok(status) == status \in 200..299

SuccessStatuses == {200}

\* Non-success statuses the backend or the blob store may answer with.
ErrorStatuses == {403, 500}

ObjectIds == {"obj1", "obj2"}

NoExchange ==
    [phase |-> "none", timer |-> FALSE, timeout |-> 0, status |-> 0,
     responseType |-> "json"]

\* The two kinds of job and the status each starts with when submitted.
\* The jobs as they are submitted; `transcript` holds the text and the
\* utterances the backend puts into the transcription's status response.
SubmittedJobs == [ocr |-> "pending", transcription |-> "queued", transcript |-> <<>>]

JobKinds == {"ocr", "transcription"}

\* The statuses a job may move to: OcrStatusResponse.status and
\* TranscriptionResponse.status; completed, failed and error are final.
LaterStatuses(kind, status) ==
    IF status \in {"pending", "queued"} THEN {"processing"}
    ELSE IF status = "processing"
    THEN {"completed", IF kind = "ocr" THEN "failed" ELSE "error"}
    ELSE {}

PollTools == {"ocr_status", "transcribe_status"}

\* The job a status tool asks for.
JobKind(op) == IF op = "ocr_status" THEN "ocr" ELSE "transcription"

\* The status response the backend gives for a job as it is now.
JobRecord(kind) ==
    IF kind = "transcription"
    THEN [status |-> jobs[kind]] @@ jobs.transcript
    ELSE [status |-> jobs[kind]]

\* The file the layer's uploads read: a byte that is text and one that is not.
LayerFile == <<65, 200>>

\* No object is stored: an object id holds the sequence of no blob.
EmptyVault == [o \in ObjectIds |-> <<>>]

NoSession == [objectId |-> Undefined, next_step |-> Null, auto_index |-> FALSE]

\* uploadResponse as the backend may send it; next_step is a string or null.
Sessions ==
    [objectId : ObjectIds, next_step : {Null, "ingest"}, auto_index : BOOLEAN]

NoParams == [auto_index |-> Undefined, mode |-> Undefined]

NoOutcome ==
    [kind |-> "none", error |-> "", status |-> 0, body |-> "", timeout |-> 0,
     objectId |-> Undefined, ingest |-> "", autoIndex |-> FALSE, size |-> 0,
     title |-> "", resultCount |-> 0, confidence |-> <<>>, entries |-> <<>>,
     jobStatus |-> "", section |-> FALSE, transcript |-> <<>>, notice |-> ""]

Error(name) == [NoOutcome EXCEPT !.kind = "error", !.error = name]

HttpError(status, body) ==
    [NoOutcome EXCEPT !.kind = "error", !.error = "HttpError",
                      !.status = status, !.body = body]

TimeoutError(timeout) ==
    [NoOutcome EXCEPT !.kind = "error", !.error = "TimeoutError",
                      !.timeout = timeout]

Success == [NoOutcome EXCEPT !.kind = "success"]

\* A tool's { metadata: { error: true } } result: returned, not thrown.
ValidationError == [NoOutcome EXCEPT !.kind = "validation", !.error = "ValidationError"]

\* One exchange on the wire; the blob transfer carries no bearer key.
Exchange(endpoint, bearer) == [endpoint |-> endpoint, bearer |-> bearer]

IdleCall ==
    [op |-> "none", pc |-> "idle", params |-> NoParams, ex |-> NoExchange,
     settled |-> NoOutcome, session |-> NoSession, result |-> NoOutcome,
     log |-> <<>>, stages |-> <<>>, s3Status |-> 0, size |-> 0,
     body |-> <<>>, response |-> <<>>, written |-> FALSE,
     fileBuffer |-> <<>>, contentType |-> "", transfer |-> <<>>,
     mkdir |-> FALSE, saved |-> <<>>]

\* The invocation ends: it returned or threw `outcome`.
Finish(rec, outcome) == [rec EXCEPT !.pc = "done", !.result = outcome]

\* The mutant of clearTimeout: the timer is left armed.
keepTimeout(ex) == ex

clearTimeout(ex) == [ex EXCEPT !.timer = FALSE]

\* The exchange record once request() has settled: only the timer outlives it.
EndExchange(ex) == [NoExchange EXCEPT !.timer = ex.timer]

(***************************************************************************)
(* VaultSearchTool.execute: the request body and the result.  An optional  *)
(* field is a field the record may lack; a score is kept in thousandths.   *)
(***************************************************************************)
Has(obj, field) == field \in DOMAIN obj

Max(a, b) == IF a >= b THEN a ELSE b

Min(a, b) == IF a <= b THEN a ELSE b

DefaultTopK == 10

MinTopK == 1

MaxTopK == 100

\* The mutant of clampTopK: only the upper limit is applied.
clampTopKUpper(params) ==
    Min(IF Has(params, "top_k") THEN params.top_k ELSE DefaultTopK, MaxTopK)

\* Math.min(Math.max(params.top_k ?? 10, 1), 100)
clampTopK(params) ==
    Min(Max(IF Has(params, "top_k") THEN params.top_k ELSE DefaultTopK, MinTopK),
        MaxTopK)

\* The mutant of searchMethod: the caller's method is ignored.
searchMethodFixed(params) == "hybrid"

\* params.method ?? "hybrid"
searchMethod(params) ==
    IF Has(params, "method") THEN params.method ELSE "hybrid"

\* filters, filled only by a truthy params.object_id.
searchFilters(params) ==
    [k \in (IF Has(params, "object_id") /\ Truthy(params.object_id)
            THEN {"object_id"} ELSE {}) |-> params.object_id]

\* The mutant of searchBody: filters is sent also when it is empty.
searchBodyWithFilters(params) ==
    [method |-> searchMethod(params), topK |-> clampTopK(params),
     filters |-> searchFilters(params)]

\* The body as serialised: a field whose value is undefined is left out.
searchBody(params) ==
    LET filters == searchFilters(params)
    IN  IF DOMAIN filters # {}
        THEN [method |-> searchMethod(params), topK |-> clampTopK(params),
              filters |-> filters]
        ELSE [method |-> searchMethod(params), topK |-> clampTopK(params)]

\* The mutant of effectiveScore: || in place of ??, a hybridScore of 0 falls
\* through to score.
effectiveScoreOr(chunk) ==
    IF Has(chunk, "hybridScore") /\ chunk.hybridScore # 0 THEN chunk.hybridScore
    ELSE IF Has(chunk, "score") /\ chunk.score # 0 THEN chunk.score
    ELSE 0

\* chunk.hybridScore ?? chunk.score ?? 0
effectiveScore(chunk) ==
    IF Has(chunk, "hybridScore") THEN chunk.hybridScore
    ELSE IF Has(chunk, "score") THEN chunk.score
    ELSE 0

\* Math.round(score * 100), the score in thousandths.
roundPercent(score) == (score + 5) \div 10

\* The mutant of listChunks: the chunks are listed by falling confidence.
listChunksSorted(chunks) ==
    IF /\ Len(chunks) = 2
       /\ roundPercent(effectiveScore(chunks[1]))
            < roundPercent(effectiveScore(chunks[2]))
    THEN <<chunks[2], chunks[1]>>
    ELSE chunks

\* for (let i = 0; i < response.chunks.length; i++): the chunks as the
\* output lists them, one "Result i" entry per chunk.
listChunks(chunks) == [i \in 1..Len(chunks) |-> chunks[i]]

\* The mutant of searchResult: chunks.length is read with no test of
\* response.chunks.
searchResultUnguarded(response) ==
    IF ~Has(response, "chunks") THEN Error("TypeError")
    ELSE [Success EXCEPT
            !.title = "results",
            !.resultCount = Len(response.chunks),
            !.entries = listChunks(response.chunks),
            !.confidence = [i \in 1..Len(response.chunks) |->
                               roundPercent(effectiveScore(response.chunks[i]))]]

\* The result of a search: "No results found" on no chunks, else one
\* confidence per chunk.
searchResult(response) ==
    IF ~Has(response, "chunks") \/ Len(response.chunks) = 0
    THEN [Success EXCEPT !.title = "No results found", !.resultCount = 0]
    ELSE [Success EXCEPT
            !.title = "results",
            !.resultCount = Len(response.chunks),
            !.entries = listChunks(response.chunks),
            !.confidence = [i \in 1..Len(response.chunks) |->
                               roundPercent(effectiveScore(response.chunks[i]))]]

\* The mutant of pollResult: the result numbers the polls in progress or
\* done, as a sequence number kept between polls would.
pollResultNumbered(rec, response) ==
    [Success EXCEPT
       !.jobStatus = response.status,
       !.resultCount = Cardinality({d \in CallIds : calls[d].op \in PollTools})]

\* The mutant of pollResult: a snapshot another poll of the same job
\* returned is answered in place of the response.
pollResultCached(rec, response) ==
    IF \E d \in CallIds : calls[d].op = rec.op /\ calls[d].result.kind = "success"
    THEN LET d == CHOOSE d \in CallIds :
                      calls[d].op = rec.op /\ calls[d].result.kind = "success"
         IN  calls[d].result
    ELSE [Success EXCEPT !.jobStatus = response.status]

\* One line of the transcript section.
Line(speaker, text) == [speaker |-> speaker, text |-> text]

\* The lines under "--- Transcript ---": one per utterance, or the flat text.
transcriptLines(response) ==
    IF Has(response, "utterances") /\ Len(response.utterances) > 0
    THEN [i \in 1..Len(response.utterances) |->
            Line(response.utterances[i].speaker, response.utterances[i].text)]
    ELSE IF Has(response, "text") /\ Truthy(response.text)
    THEN <<Line("", response.text)>>
    ELSE <<>>

\* The mutant of transcriptOf: the transcript is rendered whatever the status.
transcriptAnyStatus(response) ==
    [section |-> TRUE, transcript |-> transcriptLines(response), notice |-> ""]

\* TranscribeStatusTool.execute, the output after the status lines.
transcriptOf(response) ==
    IF response.status = "completed"
    THEN [section |-> TRUE, transcript |-> transcriptLines(response), notice |-> ""]
    ELSE IF response.status = "error"
    THEN [section |-> FALSE, transcript |-> <<>>, notice |-> "failed"]
    ELSE [section |-> FALSE, transcript |-> <<>>, notice |-> "still processing"]

\* OcrStatusTool.execute and TranscribeStatusTool.execute, the return: the
\* result holds the status of the response, and the transcript of a
\* transcription.
pollResult(rec, response) ==
    IF rec.op = "transcribe_status"
    THEN LET out == transcriptOf(response)
         IN  [Success EXCEPT !.jobStatus = response.status,
                             !.section = out.section,
                             !.transcript = out.transcript,
                             !.notice = out.notice]
    ELSE [Success EXCEPT !.jobStatus = response.status]

(***************************************************************************)
(* The tools' continuations of a request() call.                           *)
(***************************************************************************)
\* VaultUploadTool.execute, the return: the result names uploadResponse.objectId.
TerminalStage(ingestStatus) ==
    IF ingestStatus = "started" THEN "INGEST_TRIGGERED"
    ELSE IF ingestStatus = "skipped" THEN "INGEST_SKIPPED"
    ELSE "INGEST_FAILED_SOFT"

\* Math.round(bytes / 1024)
roundKB(bytes) == (2 * bytes + 1024) \div 2048

\* The result names the session's objectId and auto_index, the size in KB
\* and the ingestion status.
UploadResult(rec, ingestStatus) ==
    Finish([rec EXCEPT !.stages = Append(@, TerminalStage(ingestStatus))],
           [Success EXCEPT !.objectId = rec.session.objectId,
                           !.ingest = ingestStatus,
                           !.autoIndex = rec.session.auto_index,
                           !.size = roundKB(rec.size)])

\* The mutant of ExecThrow: step 3 has no try/catch.
ExecRethrow(rec, err) ==
    Finish([rec EXCEPT !.ex = EndExchange(@), !.settled = err], err)

\* The mutant of ExecThrow: the OCR download catches the error of its
\* request and returns an error result in its place.
ExecThrowDownloadCaught(rec, err) ==
    LET r == [rec EXCEPT !.ex = EndExchange(@), !.settled = err]
    IN  IF r.op = "upload" /\ r.pc = "ingest"
        THEN UploadResult(r, "failed to start")
        ELSE IF r.op = "ocr_download" THEN Finish(r, ValidationError)
        ELSE Finish(r, err)

\* The mutant of ExecThrow: a failed trigger is compensated, the stored
\* object is deleted again.
ExecThrowRollback(rec, err) ==
    LET r == [rec EXCEPT !.ex = EndExchange(@), !.settled = err]
    IN  IF r.op = "upload" /\ r.pc = "ingest"
        THEN UploadResult([r EXCEPT !.log = Append(@,
                              Exchange("DELETE /vault/{id}/objects/{objectId}",
                                       Undefined))],
                          "failed to start")
        ELSE Finish(r, err)

\* request() threw `err` into the tool: only the upload's step 3 catches.
ExecThrow(rec, err) ==
    LET r == [rec EXCEPT !.ex = EndExchange(@), !.settled = err]
    IN  IF r.op = "upload" /\ r.pc = "ingest"
        THEN UploadResult(r, "failed to start")
        ELSE Finish(r, err)

(***************************************************************************)
(* CaseDevClient.request up to its fetch: the key is resolved, the deadline*)
(* timer armed and the exchange sent; `options` may or may not hold a      *)
(* timeout.                                                                *)
(***************************************************************************)
\* const { ..., responseType = "json" } = options
responseTypeOf(options) ==
    IF "responseType" \in DOMAIN options THEN options.responseType ELSE "json"

\* The mutant of timeoutOf: the per-call timeout is ignored.
timeoutDefault(options) == DefaultTimeout

timeoutOf(options) ==
    IF "timeout" \in DOMAIN options THEN options.timeout ELSE DefaultTimeout

\* The mutant of bearerKey: the key resolved for the operation's first
\* request is kept for its later ones.
bearerKeyHoisted(rec) ==
    IF rec.log # <<>> THEN Return(rec.log[1].bearer)
    ELSE getApiKey(processEnv, authStore, config)

\* The key the request carries: resolved by this call.
bearerKey(rec) == getApiKey(processEnv, authStore, config)

\* The mutant of authorization: the caller's headers are spread before the
\* bearer header, which then always wins.
authorizationLast(options, apiKey) == apiKey

\* headers: { Authorization: `Bearer ${apiKey}`, ..., ...headers }: the
\* credential of the Authorization header sent; a caller's header of that
\* name, spread last, replaces the bearer key.
authorization(options, apiKey) ==
    IF "headers" \in DOMAIN options /\ "Authorization" \in DOMAIN options.headers
    THEN options.headers["Authorization"]
    ELSE apiKey

\* The mutant of request: the missing-key check is left out.
requestUnchecked(rec, pc, endpoint, options) ==
    LET r      == [rec EXCEPT !.pc = pc]
        apiKey == bearerKey(r)
    IN  IF apiKey.tag = "throw" THEN ExecThrow(r, Error(apiKey.val))
        ELSE [r EXCEPT
                !.ex = [phase |-> "fetch", timer |-> TRUE,
                        timeout |-> timeoutOf(options), status |-> 0,
                        responseType |-> responseTypeOf(options)],
                !.log = Append(@, Exchange(endpoint, apiKey.val))]

request(rec, pc, endpoint, options) ==
    LET r      == [rec EXCEPT !.pc = pc]
        apiKey == bearerKey(r)
    IN  IF apiKey.tag = "throw" THEN ExecThrow(r, Error(apiKey.val))
        ELSE IF ~Truthy(apiKey.val) THEN ExecThrow(r, Error("AuthError"))
        ELSE [r EXCEPT
                !.ex = [phase |-> "fetch", timer |-> TRUE,
                        timeout |-> timeoutOf(options), status |-> 0,
                        responseType |-> responseTypeOf(options)],
                !.log = Append(@, Exchange(endpoint,
                                           authorization(options, apiKey.val)))]

\* The mutant of ExecReturn: the trigger is issued on the slot's return, the
\* transfer left out.
ExecReturnNoTransfer(rec, data) ==
    LET r == [rec EXCEPT !.ex = EndExchange(@), !.settled = Success]
    IN  IF r.op = "upload" /\ r.pc = "slot"
        THEN request([r EXCEPT !.session = data,
                               !.stages = Append(@, "SLOT_ISSUED")],
                     "ingest", "POST /vault/{id}/ingest/{objectId}",
                     [method |-> "POST"])
        ELSE IF r.op = "upload" /\ r.pc = "ingest"
        THEN UploadResult(r, "started")
        ELSE Finish(r, Success)

\* request() returned `data` to the tool.
ExecReturn(rec, data) ==
    LET r == [rec EXCEPT !.ex = EndExchange(@), !.settled = Success]
    IN  IF r.op = "upload" /\ r.pc = "slot"
        THEN [r EXCEPT !.session = data, !.pc = "put",
                       !.stages = Append(@, "SLOT_ISSUED"),
                       !.transfer = [contentType |-> r.contentType,
                                     body |-> r.fileBuffer],
                       !.log = Append(@, Exchange("PUT uploadUrl", Undefined))]
        ELSE IF r.op = "upload" /\ r.pc = "ingest"
        THEN UploadResult(r, "started")
        ELSE IF r.op = "search"
        THEN Finish([r EXCEPT !.response = data], searchResult(data))
        ELSE IF r.op \in {"format", "vault_download"}
        THEN [r EXCEPT !.response = data, !.pc = "mkdir"]
        ELSE IF r.op = "ocr_download" /\ r.params.save_to
        THEN [r EXCEPT !.response = data, !.pc = "write"]
        ELSE IF r.op \in PollTools
        THEN Finish([r EXCEPT !.response = data], pollResult(r, data))
        ELSE Finish(r, Success)

NoOptions == <<>>

IngestEndpoint == "POST /vault/{id}/ingest/{objectId}"

(***************************************************************************)
(* The tools' execute up to their first await.                             *)
(***************************************************************************)
Free(c) == calls[c].op = "none"

Begin(op) == [IdleCall EXCEPT !.op = op]

Modes == {Undefined, "fast", "normal", "pro"}

Formats == {Undefined, "text", "json", "pdf"}

\* VaultListTool.execute: request("/vault"), no options.
InvokeVaultList(c) ==
    /\ Free(c)
    /\ calls' = [calls EXCEPT ![c] =
                    request(Begin("vault_list"), "request", "GET /vault", NoOptions)]
    /\ UNCHANGED <<credVars, resolved, jobs, disk, vault>>

\* const isVaultMode = params.vault_id && params.object_id; a parameter of
\* the transcribe tool is TRUE when the caller gave it (a truthy string).
isVaultMode(params) == params.vault_id /\ params.object_id

\* The mutant of missingParameters: only vault_id is looked at.
missingParametersVaultId(params) == ~params.vault_id /\ ~params.audio_url

\* if (!isVaultMode && !params.audio_url)
missingParameters(params) == ~isVaultMode(params) /\ ~params.audio_url

\* The mutant of transcribeBody: every parameter given is put into the body.
transcribeBodyMerged(params) ==
    (IF params.vault_id THEN [vault_id |-> TRUE] ELSE <<>>) @@
    (IF params.object_id THEN [object_id |-> TRUE] ELSE <<>>) @@
    (IF isVaultMode(params) THEN [format |-> Coalesce(params.format, "json")]
     ELSE <<>>) @@
    (IF params.audio_url THEN [audio_url |-> TRUE] ELSE <<>>)

\* The request body: the vault pair and the format in vault mode, else the URL.
transcribeBody(params) ==
    IF isVaultMode(params)
    THEN [vault_id |-> params.vault_id, object_id |-> params.object_id,
          format |-> Coalesce(params.format, "json")]
    ELSE [audio_url |-> params.audio_url]

\* The output formats a caller asks for, or none.
TranscriptFormats == {Undefined, "text"}

\* TranscribeTool.execute: the entry mode is validated before the request.
InvokeTranscribe(c, vault_id, object_id, audio_url, format) ==
    /\ Free(c)
    /\ LET params == [vault_id |-> vault_id, object_id |-> object_id,
                      audio_url |-> audio_url, format |-> format]
           rec    == [Begin("transcribe") EXCEPT !.params = params]
       IN  calls' = [calls EXCEPT ![c] =
             IF missingParameters(params)
             THEN Finish(rec, ValidationError)
             ELSE request([rec EXCEPT !.body = transcribeBody(params)],
                          "request", "POST /voice/transcription",
                          [method |-> "POST", timeout |-> TranscribeTimeout])]
    /\ UNCHANGED <<credVars, resolved, jobs, disk, vault>>

\* The mutant of saveToRequired: the save target is never asked for.
saveToNeverRequired(format, save_to) == FALSE

\* if (format === "pdf" && !params.save_to); save_to is TRUE when given.
saveToRequired(format, save_to) == format = "pdf" /\ ~save_to

\* The mutant of InvokeOcrDownload: a download of a job not known to be
\* completed is refused without a request.
InvokeOcrDownloadCompleted(c, fmt, save_to) ==
    /\ Free(c)
    /\ LET format == Coalesce(fmt, "text")
           rec    == [Begin("ocr_download") EXCEPT
                        !.params = [format |-> fmt, save_to |-> save_to]]
       IN  calls' = [calls EXCEPT ![c] =
             IF saveToRequired(format, save_to)
             THEN Finish(rec, ValidationError)
             ELSE IF jobs.ocr # "completed"
             THEN Finish(rec, Error("NotCompleted"))
             ELSE request(rec, "request",
                          "GET /ocr/v1/{jobId}/download/{format}", NoOptions)]
    /\ UNCHANGED <<credVars, resolved, jobs, disk, vault>>

\* OcrDownloadTool.execute: pdf needs save_to, checked before the request.
InvokeOcrDownload(c, fmt, save_to) ==
    /\ Free(c)
    /\ LET format == Coalesce(fmt, "text")
           rec    == [Begin("ocr_download") EXCEPT
                        !.params = [format |-> fmt, save_to |-> save_to]]
       IN  calls' = [calls EXCEPT ![c] =
             IF saveToRequired(format, save_to)
             THEN Finish(rec, ValidationError)
             ELSE request(rec, "request",
                          "GET /ocr/v1/{jobId}/download/{format}", NoOptions)]
    /\ UNCHANGED <<credVars, resolved, jobs, disk, vault>>

\* Headers a caller of request() may pass in options.headers.
CustomHeaders == {"X-Trace" :> "t1", "Authorization" :> "Basic b1"}

\* CaseDevClient.request called with custom headers.
InvokeRequest(c, headers) ==
    /\ Free(c)
    /\ calls' = [calls EXCEPT ![c] =
          request([Begin("request") EXCEPT !.params = [headers |-> headers]],
                  "request", "GET /vault", [headers |-> headers])]
    /\ UNCHANGED <<credVars, resolved, jobs, disk, vault>>

\* OcrStatusTool.execute and TranscribeStatusTool.execute: one GET of the job.
InvokePoll(c, op) ==
    /\ Free(c)
    /\ calls' = [calls EXCEPT ![c] =
          request(Begin(op), "request",
                  IF op = "ocr_status" THEN "GET /ocr/v1/{jobId}"
                  ELSE "GET /voice/transcription/{jobId}",
                  NoOptions)]
    /\ UNCHANGED <<credVars, resolved, jobs, disk, vault>>

OutputFormats == {"pdf", "docx", "html_preview"}

\* FormatDocumentTool.execute: the document is requested as text or binary.
InvokeFormat(c, output_format) ==
    /\ Free(c)
    /\ calls' = [calls EXCEPT ![c] =
          request([Begin("format") EXCEPT
                     !.params = [output_format |-> output_format]],
                  "request", "POST /format/v1/document",
                  [method |-> "POST",
                   responseType |-> IF output_format = "html_preview"
                                    THEN "text" ELSE "arraybuffer"])]
    /\ UNCHANGED <<credVars, resolved, jobs, disk, vault>>

\* The mutant of InvokeVaultDownload: the directory of the save target is
\* made before the object is requested.
InvokeVaultDownloadMkdirFirst(c, object_id) ==
    /\ Free(c)
    /\ calls' = [calls EXCEPT ![c] =
          request([Begin("vault_download") EXCEPT
                     !.params = [object_id |-> object_id], !.mkdir = TRUE],
                  "request", "GET /vault/{id}/objects/{objectId}/download",
                  [responseType |-> "arraybuffer"])]
    /\ UNCHANGED <<credVars, resolved, jobs, disk, vault>>

\* VaultObjectDownloadTool.execute: the object is requested as binary.
InvokeVaultDownload(c, object_id) ==
    /\ Free(c)
    /\ calls' = [calls EXCEPT ![c] =
          request([Begin("vault_download") EXCEPT
                     !.params = [object_id |-> object_id]],
                  "request", "GET /vault/{id}/objects/{objectId}/download",
                  [responseType |-> "arraybuffer"])]
    /\ UNCHANGED <<credVars, resolved, jobs, disk, vault>>

\* fs.mkdir(dir, { recursive: true }) of the format and the vault download
\* tool, after their request.
MakeDir(c, mkdirOk) ==
    /\ calls[c].pc = "mkdir"
    /\ calls' = [calls EXCEPT ![c] =
          IF mkdirOk THEN [calls[c] EXCEPT !.mkdir = TRUE, !.pc = "write"]
          ELSE Finish(calls[c], Error("FsError"))]
    /\ UNCHANGED <<credVars, resolved, jobs, disk, vault>>

\* What fs.writeFile is given: the HTML preview is a string and written as
\* UTF-8, a binary response is written as Buffer.from(response), the OCR
\* content as the tool prepared it.
fileContent(rec) ==
    IF rec.op = "format" /\ rec.params.output_format = "html_preview"
    THEN encodeText(rec.response)
    ELSE rec.response

\* The file is written (followed by stat in the format and the vault
\* download tool): `saved` holds what the call wrote to its save target.
WriteFile(c, writeOk) ==
    /\ calls[c].pc = "write"
    /\ calls' = [calls EXCEPT ![c] =
          IF writeOk
          THEN Finish([calls[c] EXCEPT !.written = TRUE,
                                       !.saved = Append(@, fileContent(calls[c]))],
                      Success)
          ELSE Finish(calls[c], Error("FsError"))]
    /\ UNCHANGED <<credVars, resolved, jobs, disk, vault>>

researchTimeout(mode) ==
    IF mode = "pro" THEN ProTimeout
    ELSE IF mode = "normal" THEN NormalTimeout
    ELSE FastTimeout

\* LegalSearchTool.execute: the timeout follows params.mode.
InvokeResearch(c, mode) ==
    /\ Free(c)
    /\ calls' = [calls EXCEPT ![c] =
          request([Begin("research") EXCEPT
                     !.params.mode = mode,
                     !.body = [model |-> Coalesce(mode, "normal")]],
                  "request", "POST /search/v1/research",
                  [method |-> "POST", timeout |-> researchTimeout(mode)])]
    /\ UNCHANGED <<credVars, resolved, jobs, disk, vault>>

\* VaultSearchTool.execute: the body is built and the request issued.
InvokeSearch(c, params) ==
    /\ Free(c)
    /\ calls' = [calls EXCEPT ![c] =
          request([Begin("search") EXCEPT !.params = params,
                                          !.body = searchBody(params)],
                  "request", "POST /vault/{id}/search", [method |-> "POST"])]
    /\ UNCHANGED <<credVars, resolved, jobs, disk, vault>>

\* path.extname(filePath) of the files uploaded: in the table, in upper and
\* in mixed case, outside the table, and none.
Extensions == {".pdf", ".PDF", ".Mp3", ".jpeg", ".xyz", ""}

\* String.prototype.toLowerCase, on the extensions of the model.
toLowerCase(ext) ==
    CASE ext = ".PDF" -> ".pdf"
      [] ext = ".Mp3" -> ".mp3"
      [] OTHER -> ext

contentTypeMap ==
    (".pdf" :> "application/pdf") @@ (".png" :> "image/png") @@
    (".jpg" :> "image/jpeg") @@ (".jpeg" :> "image/jpeg") @@
    (".tiff" :> "image/tiff") @@ (".tif" :> "image/tiff") @@
    (".docx" :> "application/vnd.openxmlformats-officedocument.wordprocessingml.document") @@
    (".txt" :> "text/plain") @@ (".mp3" :> "audio/mpeg") @@
    (".wav" :> "audio/wav") @@ (".m4a" :> "audio/mp4") @@
    (".aac" :> "audio/aac") @@ (".ogg" :> "audio/ogg") @@
    (".flac" :> "audio/flac") @@ (".mp4" :> "video/mp4") @@
    (".webm" :> "video/webm") @@ (".mov" :> "video/quicktime") @@
    (".avi" :> "video/x-msvideo")

\* The mutant of contentTypeOf: the extension is looked up as it is written.
contentTypeExact(extname) ==
    IF extname \in DOMAIN contentTypeMap THEN contentTypeMap[extname]
    ELSE "application/octet-stream"

\* contentTypeMap[ext] ?? "application/octet-stream", ext in lower case
contentTypeOf(extname) ==
    LET ext == toLowerCase(extname)
    IN  IF ext \in DOMAIN contentTypeMap THEN contentTypeMap[ext]
        ELSE "application/octet-stream"

\* VaultUploadTool.execute up to await fs.readFile.
InvokeUpload(c, auto_index, extname) ==
    /\ Free(c)
    /\ calls' = [calls EXCEPT ![c] =
          [Begin("upload") EXCEPT
             !.pc = "read",
             !.params = [auto_index |-> auto_index, mode |-> Undefined,
                         extname |-> extname],
             !.stages = <<"REQUESTED">>]]
    /\ UNCHANGED <<credVars, resolved, jobs, disk, vault>>

\* The mutant of readFile: the file is read as a UTF-8 string.
readFileUtf8(file) == encodeText(decodeText(file))

\* fs.readFile(filePath) with no encoding: a Buffer of the file's bytes.
readFile(file) == file

\* fs.readFile answered; fs.stat is awaited next.
ReadFile(c, readOk) ==
    /\ calls[c].op = "upload" /\ calls[c].pc = "read"
    /\ calls' = [calls EXCEPT ![c] =
          IF readOk
          THEN [calls[c] EXCEPT !.fileBuffer = readFile(disk), !.pc = "stat"]
          ELSE Finish(calls[c], Error("FsError"))]
    /\ UNCHANGED <<credVars, resolved, jobs, disk, vault>>

\* The body of the slot request.
slotBody(rec, contentType, size) ==
    [contentType |-> contentType,
     auto_index |-> Coalesce(rec.params.auto_index, "true"),
     sizeBytes |-> size]

\* fs.stat answered with the file's size as it is now; the content type is
\* derived and step 1, the slot request, issued.
StatFile(c, statOk) ==
    /\ calls[c].op = "upload" /\ calls[c].pc = "stat"
    /\ calls' = [calls EXCEPT ![c] =
          IF statOk
          THEN LET contentType == contentTypeOf(calls[c].params.extname)
               IN  request([calls[c] EXCEPT
                              !.size = Len(disk),
                              !.contentType = contentType,
                              !.body = slotBody(calls[c], contentType, Len(disk))],
                           "slot", "POST /vault/{id}/upload", [method |-> "POST"])
          ELSE Finish(calls[c], Error("FsError"))]
    /\ UNCHANGED <<credVars, resolved, jobs, disk, vault>>

\* Another process writes the file while the upload is running.
ModifyFile(file) ==
    /\ \E c \in CallIds : calls[c].op = "upload" /\ calls[c].pc # "done"
    /\ disk # file
    /\ disk' = file
    /\ UNCHANGED <<credVars, resolved, calls, jobs, vault>>

\* The blob storage has received the transfer and holds its body under the
\* session's object id.
StoreBlob(c) ==
    /\ calls[c].op = "upload" /\ calls[c].pc = "put"
    /\ vault' = [vault EXCEPT ![calls[c].session.objectId] =
                    <<calls[c].transfer.body>>]
    /\ UNCHANGED <<credVars, resolved, calls, jobs, disk>>

(***************************************************************************)
(* CaseDevClient.request from its fetch on.                                *)
(***************************************************************************)
InRequest(c) == calls[c].pc \in {"slot", "ingest", "request"}

\* A record of the one field, or of none: an optional field.
Opt(field, values) == {<<>>} \cup {field :> v : v \in values}

\* The chunks of a response: hybridScore and score are optional.
Chunks ==
    {h @@ sc : h \in Opt("hybridScore", {0, 874}), sc \in Opt("score", {455})}

\* VaultSearchResponse: chunks is optional, empty, or holds chunks.
SearchResponses ==
    Opt("chunks", {<<>>} \cup {<<ch>> : ch \in Chunks}
                         \cup {<<ch, <<>> >> : ch \in Chunks}
                         \cup {<< <<>>, ch>> : ch \in Chunks})

\* The bytes of a formatted document.
Document == <<65, 200>>

\* response.arrayBuffer(), response.text() or response.json() of the body.
readBody(responseType, payload) ==
    IF responseType = "text" THEN decodeText(payload) ELSE payload

\* What the backend may answer a request with: a session to the slot
\* request, a search response to a search, and a payload the model does not
\* look into to the others.
Payloads(rec) ==
    IF rec.pc = "slot" THEN Sessions
    ELSE IF rec.op = "search" THEN SearchResponses
    ELSE IF rec.op \in PollTools THEN {JobRecord(JobKind(rec.op))}
    ELSE IF rec.op = "format" THEN {Document}
    ELSE IF rec.op = "vault_download"
    THEN {IF vault[rec.params.object_id] = <<>> THEN <<>>
          ELSE vault[rec.params.object_id][1]}
    ELSE {NoSession}

\* fetch resolved with the response's status line: the timer is cleared.
FetchResolves(c, status) ==
    /\ InRequest(c) /\ calls[c].ex.phase = "fetch"
    /\ calls' = [calls EXCEPT ![c].ex =
                    [clearTimeout(@) EXCEPT !.phase = "body", !.status = status]]
    /\ UNCHANGED <<credVars, resolved, jobs, disk, vault>>

\* The mutant of Catch: every error caught is reported as the timeout.
CatchAsTimeout(rec, err) ==
    LET r == [rec EXCEPT !.ex = clearTimeout(@)]
    IN  ExecThrow(r, TimeoutError(r.ex.timeout))

\* The catch block: the timer is cleared and the error rethrown, an
\* AbortError as the timeout error.
Catch(rec, err) ==
    LET r == [rec EXCEPT !.ex = clearTimeout(@)]
    IN  IF err.error = "AbortError"
        THEN ExecThrow(r, TimeoutError(r.ex.timeout))
        ELSE ExecThrow(r, err)

\* The mutant of errorResponse: response.text() without its .catch, a failed
\* read of the error body is thrown in place of the API error.
errorResponseUncaught(rec, readOk) ==
    IF readOk THEN Catch(rec, HttpError(rec.ex.status, "text"))
    ELSE Catch(rec, Error("DecodeError"))

\* if (!response.ok): the error text is read, "Unknown error" when the read
\* fails, and the API error thrown with the status and the text.
errorResponse(rec, readOk) ==
    LET errorText == IF readOk THEN "text" ELSE "Unknown error"
    IN  Catch(rec, HttpError(rec.ex.status, errorText))

\* The body is read: the error text of a non-success response, else the
\* payload in the requested shape.
ResponseBody(c, readOk, data) ==
    /\ InRequest(c) /\ calls[c].ex.phase = "body"
    /\ data \in Payloads(calls[c])
    /\ LET rec == calls[c]
       IN  calls' = [calls EXCEPT ![c] =
             IF ~ok(rec.ex.status) THEN errorResponse(rec, readOk)
             ELSE IF readOk
             THEN ExecReturn(rec, readBody(rec.ex.responseType, data))
             ELSE Catch(rec, Error("DecodeError"))]
    /\ UNCHANGED <<credVars, resolved, jobs, disk, vault>>

\* fetch rejected: the network failed.
FetchRejects(c) ==
    /\ InRequest(c) /\ calls[c].ex.phase = "fetch"
    /\ calls' = [calls EXCEPT ![c] = Catch(calls[c], Error("NetworkError"))]
    /\ UNCHANGED <<credVars, resolved, jobs, disk, vault>>

\* The mutant of TimerFires: one AbortController serves every call, the
\* timer of one call aborts every fetch in flight.
TimerFiresShared(c) ==
    /\ calls[c].ex.timer
    /\ calls' = [d \in CallIds |->
          IF d = c \/ calls[d].ex.phase = "fetch"
          THEN [calls[d] EXCEPT
                  !.ex = [@ EXCEPT !.timer = IF d = c THEN FALSE ELSE @,
                                   !.phase = IF @ = "fetch" THEN "aborted" ELSE @]]
          ELSE calls[d]]
    /\ UNCHANGED <<credVars, resolved, jobs, disk, vault>>

\* The deadline timer fires: controller.abort() aborts a fetch in flight.
TimerFires(c) ==
    /\ calls[c].ex.timer
    /\ calls' = [calls EXCEPT ![c].ex =
                    [@ EXCEPT !.timer = FALSE,
                              !.phase = IF @ = "fetch" THEN "aborted" ELSE @]]
    /\ UNCHANGED <<credVars, resolved, jobs, disk, vault>>

\* The aborted fetch rejects with an AbortError.
AbortRejects(c) ==
    /\ InRequest(c) /\ calls[c].ex.phase = "aborted"
    /\ calls' = [calls EXCEPT ![c] = Catch(calls[c], Error("AbortError"))]
    /\ UNCHANGED <<credVars, resolved, jobs, disk, vault>>

(***************************************************************************)
(* VaultUploadTool.execute, steps 2 and 3.                                 *)
(***************************************************************************)
\* The mutant of transferOk: the transfer's status is not looked at.
transferAny(status) == TRUE

transferOk(status) == ok(status)

\* if (uploadResponse.next_step && uploadResponse.auto_index)
triggersIngest(session) == Truthy(session.next_step) /\ session.auto_index

\* The PUT answered; on success step 3 runs up to its await (or to the return).
PutResolves(c, status) ==
    /\ calls[c].op = "upload" /\ calls[c].pc = "put"
    /\ LET rec == [calls[c] EXCEPT !.s3Status = status]
       IN  calls' = [calls EXCEPT ![c] =
             IF ~transferOk(status)
             THEN Finish(rec, HttpError(status, "statusText"))
             ELSE LET r == [rec EXCEPT !.stages = Append(@, "TRANSFERRED")]
                  IN  IF triggersIngest(r.session)
                      THEN request(r, "ingest", IngestEndpoint, [method |-> "POST"])
                      ELSE UploadResult(r, "skipped")]
    /\ UNCHANGED <<credVars, resolved, jobs, disk, vault>>

\* The mutant of PutRejects: a rejected transfer is attempted once more
\* against the same upload URL.
PutRetries(c) ==
    /\ calls[c].op = "upload" /\ calls[c].pc = "put"
    /\ calls' = [calls EXCEPT ![c] =
          IF Len(calls[c].log) = 2
          THEN [calls[c] EXCEPT !.log = Append(@, Exchange("PUT uploadUrl", Undefined))]
          ELSE Finish(calls[c], Error("NetworkError"))]
    /\ UNCHANGED <<credVars, resolved, jobs, disk, vault>>

\* The PUT's fetch rejected: the error leaves execute, nothing is re-sent.
PutRejects(c) ==
    /\ calls[c].op = "upload" /\ calls[c].pc = "put"
    /\ calls' = [calls EXCEPT ![c] = Finish(calls[c], Error("NetworkError"))]
    /\ UNCHANGED <<credVars, resolved, jobs, disk, vault>>

(***************************************************************************)
(* CaseDevClient.uploadFile: a multipart POST with the bearer key, no      *)
(* deadline timer and no catch block.                                      *)
(***************************************************************************)
InvokeUploadFile(c) ==
    /\ Free(c)
    /\ LET r      == [Begin("uploadFile") EXCEPT !.pc = "upload_file"]
           apiKey == bearerKey(r)
       IN  calls' = [calls EXCEPT ![c] =
             IF apiKey.tag = "throw" THEN Finish(r, Error(apiKey.val))
             ELSE IF ~Truthy(apiKey.val) THEN Finish(r, Error("AuthError"))
             ELSE [r EXCEPT
                     !.ex = [NoExchange EXCEPT !.phase = "fetch"],
                     !.log = Append(@, Exchange("POST multipart", apiKey.val))]]
    /\ UNCHANGED <<credVars, resolved, jobs, disk, vault>>

UploadFileResolves(c, status) ==
    /\ calls[c].pc = "upload_file" /\ calls[c].ex.phase = "fetch"
    /\ calls' = [calls EXCEPT ![c].ex = [@ EXCEPT !.phase = "body", !.status = status]]
    /\ UNCHANGED <<credVars, resolved, jobs, disk, vault>>

UploadFileBody(c, readOk) ==
    /\ calls[c].pc = "upload_file" /\ calls[c].ex.phase = "body"
    /\ LET rec == [calls[c] EXCEPT !.ex = EndExchange(@)]
       IN  calls' = [calls EXCEPT ![c] =
             IF ~ok(calls[c].ex.status)
             THEN Finish(rec, HttpError(calls[c].ex.status,
                                        IF readOk THEN "text" ELSE "Unknown error"))
             ELSE IF readOk THEN Finish(rec, Success)
             ELSE Finish(rec, Error("DecodeError"))]
    /\ UNCHANGED <<credVars, resolved, jobs, disk, vault>>

UploadFileRejects(c) ==
    /\ calls[c].pc = "upload_file" /\ calls[c].ex.phase = "fetch"
    /\ calls' = [calls EXCEPT ![c] =
                    Finish([calls[c] EXCEPT !.ex = EndExchange(@)],
                           Error("NetworkError"))]
    /\ UNCHANGED <<credVars, resolved, jobs, disk, vault>>

\* The caller has taken the result; the call id is free again.
Reset(c) ==
    /\ calls[c].pc = "done"
    /\ calls' = [calls EXCEPT ![c] = IdleCall]
    /\ UNCHANGED <<credVars, resolved, jobs, disk, vault>>

(***************************************************************************)
(* The credential sources change under the program.                        *)
(***************************************************************************)
SetEnv(name, v) ==
    /\ processEnv[name] # v
    /\ processEnv' = [processEnv EXCEPT ![name] = v]
    /\ resolved' = NoResult
    /\ UNCHANGED <<authStore, config, calls, jobs, disk, vault>>

SetAuth(a) ==
    /\ authStore # a
    /\ authStore' = a
    /\ resolved' = NoResult
    /\ UNCHANGED <<processEnv, config, calls, jobs, disk, vault>>

SetConfig(v) ==
    /\ config # v
    /\ config' = v
    /\ resolved' = NoResult
    /\ UNCHANGED <<processEnv, authStore, calls, jobs, disk, vault>>

\* getApiKey() called on its own.
Resolve ==
    /\ resolved' = getApiKey(processEnv, authStore, config)
    /\ UNCHANGED <<credVars, calls, jobs, disk, vault>>

(***************************************************************************)
(* The credential resolver alone, over every state of its three sources.   *)
(***************************************************************************)
EnvNames == {"THURGOOD_API_KEY", "CASEDEV_API_KEY"}

InitResolver ==
    /\ processEnv \in [EnvNames -> EnvValues]
    /\ authStore \in AuthValues
    /\ config \in ConfigValues
    /\ resolved = NoResult
    /\ calls = [c \in CallIds |-> IdleCall]
    /\ jobs = SubmittedJobs
    /\ disk = LayerFile
    /\ vault = EmptyVault

NextResolver ==
    \/ \E n \in EnvNames, v \in EnvValues : SetEnv(n, v)
    \/ \E a \in AuthValues : SetAuth(a)
    \/ \E v \in ConfigValues : SetConfig(v)
    \/ Resolve

SpecResolver == InitResolver /\ [][NextResolver]_vars

(***************************************************************************)
(* The layer: the tools, one invocation at a time, interleaved with changes*)
(* of the credential sources that reach every branch of getApiKey.         *)
(***************************************************************************)
LayerCasedevValues == {Undefined, "k1"}

LayerAuthValues ==
    {AuthRecord(Undefined, Undefined), AuthRecord(Throws, Undefined),
     AuthRecord("api", "k2")}

LayerConfigValues == {Undefined, Throws, "k1"}

\* A rotation or removal of THURGOOD_API_KEY, the auth store failing or not.
RotatedEnvValues == {Undefined} \cup Keys

RotatedAuthValues == {AuthRecord(Undefined, Undefined), AuthRecord(Throws, Undefined)}

Init ==
    /\ processEnv \in [EnvNames -> EnvValues]
    /\ processEnv.CASEDEV_API_KEY \in LayerCasedevValues
    /\ authStore \in LayerAuthValues
    /\ config \in LayerConfigValues
    /\ resolved = NoResult
    /\ calls = [c \in CallIds |-> IdleCall]
    /\ jobs = SubmittedJobs
    /\ disk = LayerFile
    /\ vault = EmptyVault

Statuses == SuccessStatuses \cup ErrorStatuses

Methods == {"hybrid", "fast", "global", "entity", "local", "vector", "graph"}

\* top_k as callers give it: zero, negative, in range, at the limits, oversized.
TopKs == {-5, 0, 1, 10, 50, 100, 101, 500}

SearchParams ==
    {m @@ t @@ o : m \in Opt("method", Methods), t \in Opt("top_k", TopKs),
                   o \in Opt("object_id", {"", "obj1"})}

\* The searches run among the other tools.
LayerSearchParams ==
    {p \in SearchParams :
        /\ Has(p, "method") => p.method = "fast"
        /\ Has(p, "top_k") => p.top_k = 500
        /\ Has(p, "object_id") => p.object_id = "obj1"
        /\ Has(p, "method") = Has(p, "top_k")}

\* The steps of the request executor for call c.
ExecutorStep(c) ==
    \/ \E st \in Statuses : FetchResolves(c, st)
    \/ \E r \in BOOLEAN, d \in Payloads(calls[c]) : ResponseBody(c, r, d)
    \/ FetchRejects(c)
    \/ TimerFires(c)
    \/ AbortRejects(c)
    \/ Reset(c)

CredentialChange ==
    \/ \E v \in EnvValues : SetEnv("THURGOOD_API_KEY", v)
    \/ \E v \in LayerCasedevValues : SetEnv("CASEDEV_API_KEY", v)
    \/ \E a \in LayerAuthValues : SetAuth(a)
    \/ \E v \in LayerConfigValues : SetConfig(v)

Rotation ==
    \/ \E v \in RotatedEnvValues : SetEnv("THURGOOD_API_KEY", v)
    \/ \E a \in RotatedAuthValues : SetAuth(a)

Next ==
    \/ \E c \in Foreground : InvokeVaultList(c)
    \/ \E c \in Foreground, v, o, a \in BOOLEAN, f \in TranscriptFormats :
          InvokeTranscribe(c, v, o, a, f)
    \/ \E c \in Foreground, f \in Formats, s \in BOOLEAN : InvokeOcrDownload(c, f, s)
    \/ \E c \in Foreground, m \in Modes : InvokeResearch(c, m)
    \/ \E c \in Foreground, p \in LayerSearchParams : InvokeSearch(c, p)
    \/ \E c \in Foreground, f \in OutputFormats : InvokeFormat(c, f)
    \/ \E c \in Foreground, op \in PollTools : InvokePoll(c, op)
    \/ \E c \in Foreground : InvokeVaultDownload(c, "obj1")
    \/ \E c \in Foreground, m \in BOOLEAN : MakeDir(c, m)
    \/ \E c \in Foreground, w \in BOOLEAN : WriteFile(c, w)
    \/ \E c \in Foreground, a \in {Undefined, "true", "false"} :
          InvokeUpload(c, a, ".pdf")
    \/ \E c \in Foreground, r \in BOOLEAN : ReadFile(c, r)
    \/ \E c \in Foreground, r \in BOOLEAN : StatFile(c, r)
    \/ \E c \in Foreground : ExecutorStep(c)
    \/ \E c \in Foreground, st \in Statuses : PutResolves(c, st)
    \/ \E c \in Foreground : PutRejects(c)
    \/ \E c \in Foreground : InvokeUploadFile(c)
    \/ \E c \in Foreground, st \in Statuses : UploadFileResolves(c, st)
    \/ \E c \in Foreground, r \in BOOLEAN : UploadFileBody(c, r)
    \/ \E c \in Foreground : UploadFileRejects(c)
    \/ CredentialChange

Spec == Init /\ [][Next]_vars

(***************************************************************************)
(* The request executor under concurrent calls: every call id runs a plain *)
(* request (VaultListTool) while the credential sources change.            *)
(***************************************************************************)
NextExecutor ==
    \/ \E c \in CallIds : InvokeVaultList(c)
    \/ \E c \in CallIds : ExecutorStep(c)
    \/ Rotation

InitExecutor ==
    /\ processEnv \in [EnvNames -> RotatedEnvValues]
    /\ processEnv.CASEDEV_API_KEY = Undefined
    /\ authStore \in RotatedAuthValues
    /\ config = Undefined
    /\ resolved = NoResult
    /\ calls = [c \in CallIds |-> IdleCall]
    /\ jobs = SubmittedJobs
    /\ disk = LayerFile
    /\ vault = EmptyVault

SpecExecutor == InitExecutor /\ [][NextExecutor]_vars

(***************************************************************************)
(* The search tool alone, over every shape of its parameters and of the    *)
(* backend's response, with a key in the environment.                      *)
(***************************************************************************)
InitSearch ==
    /\ processEnv = [THURGOOD_API_KEY |-> "k1", CASEDEV_API_KEY |-> Undefined]
    /\ authStore = AuthRecord(Undefined, Undefined)
    /\ config = Undefined
    /\ resolved = NoResult
    /\ calls = [c \in CallIds |-> IdleCall]
    /\ jobs = SubmittedJobs
    /\ disk = LayerFile
    /\ vault = EmptyVault

NextSearch ==
    \/ \E c \in Foreground, p \in SearchParams : InvokeSearch(c, p)
    \/ \E c \in Foreground : ExecutorStep(c)

SpecSearch == InitSearch /\ [][NextSearch]_vars

(***************************************************************************)
(* The jobs: status polls on every call id and OCR downloads, while the    *)
(* backend moves the jobs on, with a key in the environment.               *)
(***************************************************************************)
\* The backend moves a job to a later status.
JobAdvances(kind) ==
    /\ \E st \in LaterStatuses(kind, jobs[kind]) :
          jobs' = [jobs EXCEPT ![kind] = st]
    /\ UNCHANGED <<credVars, resolved, calls, disk, vault>>

NextJobs ==
    \/ \E c \in Pollers, op \in PollTools : InvokePoll(c, op)
    \/ \E c \in Foreground, f \in Formats, st \in BOOLEAN : InvokeOcrDownload(c, f, st)
    \/ \E c \in Pollers : ExecutorStep(c)
    \/ \E c \in Foreground, w \in BOOLEAN : WriteFile(c, w)
    \/ \E kind \in JobKinds : JobAdvances(kind)

SpecJobs == InitSearch /\ [][NextJobs]_vars

(***************************************************************************)
(* The exchanges on the wire: request() called with custom headers,        *)
(* uploadFile and the upload with its blob transfer, while the key is      *)
(* rotated.                                                                *)
(***************************************************************************)
NextTransport ==
    \/ \E c \in Foreground, h \in CustomHeaders : InvokeRequest(c, h)
    \/ \E c \in Foreground, a \in {Undefined, "true", "false"} :
          InvokeUpload(c, a, ".pdf")
    \/ \E c \in Foreground, r \in BOOLEAN : ReadFile(c, r)
    \/ \E c \in Foreground, r \in BOOLEAN : StatFile(c, r)
    \/ \E c \in Foreground : ExecutorStep(c)
    \/ \E c \in Foreground, st \in Statuses : PutResolves(c, st)
    \/ \E c \in Foreground : PutRejects(c)
    \/ \E c \in Foreground : InvokeUploadFile(c)
    \/ \E c \in Foreground, st \in Statuses : UploadFileResolves(c, st)
    \/ \E c \in Foreground, r \in BOOLEAN : UploadFileBody(c, r)
    \/ \E c \in Foreground : UploadFileRejects(c)
    \/ Rotation

SpecTransport == InitExecutor /\ [][NextTransport]_vars

(***************************************************************************)
(* The round trip of a file: call 1 uploads the local file, the blob       *)
(* storage stores what it is sent, and call 2 downloads an object and      *)
(* saves it, with a key in the environment.                                *)
(***************************************************************************)
\* The local files: empty, text, not text, and both.
Files == {<<>>, <<65>>, <<200>>, <<65, 200>>}

Downloaders == {c \in CallIds : c = 2}

InitFiles ==
    /\ processEnv = [THURGOOD_API_KEY |-> "k1", CASEDEV_API_KEY |-> Undefined]
    /\ authStore = AuthRecord(Undefined, Undefined)
    /\ config = Undefined
    /\ resolved = NoResult
    /\ calls = [c \in CallIds |-> IdleCall]
    /\ jobs = SubmittedJobs
    /\ disk \in Files
    /\ vault = EmptyVault

NextFiles ==
    \/ \E c \in Foreground : InvokeUpload(c, Undefined, ".pdf")
    \/ \E c \in Foreground, r \in BOOLEAN : ReadFile(c, r)
    \/ \E c \in Foreground, r \in BOOLEAN : StatFile(c, r)
    \/ \E c \in Foreground, st \in Statuses : PutResolves(c, st)
    \/ \E c \in Foreground : PutRejects(c)
    \/ \E c \in Foreground : StoreBlob(c)
    \/ \E c \in Downloaders, o \in ObjectIds : InvokeVaultDownload(c, o)
    \/ \E c \in Downloaders, m \in BOOLEAN : MakeDir(c, m)
    \/ \E c \in Downloaders, w \in BOOLEAN : WriteFile(c, w)
    \/ \E c \in Foreground \cup Downloaders : ExecutorStep(c)

SpecFiles == InitFiles /\ [][NextFiles]_vars

(***************************************************************************)
(* Operations running at once: polls of the two jobs, a search and an      *)
(* upload on two call ids, with a key in the environment.                  *)
(***************************************************************************)
ConcurrentSearchParams == {p \in LayerSearchParams : ~Has(p, "method")}

NextConcurrent ==
    \/ \E c \in Pollers, op \in PollTools : InvokePoll(c, op)
    \/ \E c \in Pollers, p \in ConcurrentSearchParams : InvokeSearch(c, p)
    \/ \E c \in Pollers : InvokeUpload(c, Undefined, ".pdf")
    \/ \E c \in Pollers, r \in BOOLEAN : ReadFile(c, r)
    \/ \E c \in Pollers, r \in BOOLEAN : StatFile(c, r)
    \/ \E c \in Pollers, st \in Statuses : PutResolves(c, st)
    \/ \E c \in Pollers : PutRejects(c)
    \/ \E c \in Pollers : ExecutorStep(c)

SpecConcurrent == InitSearch /\ [][NextConcurrent]_vars

(***************************************************************************)
(* The upload alone, over the extensions and the contents of its file,     *)
(* while another process writes the file, with a key in the environment.   *)
(***************************************************************************)
NextUpload ==
    \/ \E c \in Foreground, e \in Extensions : InvokeUpload(c, Undefined, e)
    \/ \E c \in Foreground, r \in BOOLEAN : ReadFile(c, r)
    \/ \E f \in Files : ModifyFile(f)
    \/ \E c \in Foreground, r \in BOOLEAN : StatFile(c, r)
    \/ \E c \in Foreground, st \in Statuses : PutResolves(c, st)
    \/ \E c \in Foreground : PutRejects(c)
    \/ \E c \in Foreground : ExecutorStep(c)

SpecUpload == InitFiles /\ [][NextUpload]_vars

(***************************************************************************)
(* The transcription poll over what the status response may hold: a flat   *)
(* text, empty or not, utterances, none or some, or neither, while the job *)
(* moves on, with a key in the environment.                                *)
(***************************************************************************)
Utterances ==
    {<<>>, <<[text |-> "good", start |-> 0, end |-> 2, speaker |-> "A"],
             [text |-> "morning", start |-> 2, end |-> 5, speaker |-> "B"]>>}

Transcripts ==
    {t @@ u : t \in Opt("text", {"", "good morning"}),
              u \in Opt("utterances", Utterances)}

InitTranscripts ==
    /\ processEnv = [THURGOOD_API_KEY |-> "k1", CASEDEV_API_KEY |-> Undefined]
    /\ authStore = AuthRecord(Undefined, Undefined)
    /\ config = Undefined
    /\ resolved = NoResult
    /\ calls = [c \in CallIds |-> IdleCall]
    /\ jobs \in {[SubmittedJobs EXCEPT !.transcript = t] : t \in Transcripts}
    /\ disk = LayerFile
    /\ vault = EmptyVault

NextTranscripts ==
    \/ \E c \in Foreground : InvokePoll(c, "transcribe_status")
    \/ \E c \in Foreground : ExecutorStep(c)
    \/ JobAdvances("transcription")

SpecTranscripts == InitTranscripts /\ [][NextTranscripts]_vars

(***************************************************************************)
(* Properties.                                                             *)
(***************************************************************************)
Endpoints(rec) == {rec.log[i].endpoint : i \in DOMAIN rec.log}

Uploads == {c \in CallIds : calls[c].op = "upload"}

IsPrefix(s, t) == Len(s) <= Len(t) /\ \A i \in 1..Len(s) : s[i] = t[i]

TerminalStages == {"INGEST_TRIGGERED", "INGEST_SKIPPED", "INGEST_FAILED_SOFT"}

\* C1: an upload whose blob transfer answered a non-success status has ended
\* with an HttpError of that status, has returned no result, and has issued
\* no indexing trigger request.
C1_FailedTransferIsFatal ==
    \A c \in Uploads :
        (calls[c].s3Status # 0 /\ ~ok(calls[c].s3Status)) =>
            /\ calls[c].pc = "done"
            /\ calls[c].result = HttpError(calls[c].s3Status, "statusText")
            /\ IngestEndpoint \notin Endpoints(calls[c])

\* C1 witness: the transfer of a session that asks for indexing was refused.
C1_Witness ==
    \E c \in Uploads :
        /\ calls[c].s3Status \in ErrorStatuses
        /\ triggersIngest(calls[c].session)

\* C2: an upload whose transfer succeeded and whose indexing trigger call
\* failed, for whatever reason request() fails, has returned a success result
\* with ingestion "failed to start" and the session's objectId.
C2_SoftIngestFailure ==
    \A c \in Uploads :
        ("TRANSFERRED" \in {calls[c].stages[i] : i \in DOMAIN calls[c].stages}
            /\ calls[c].settled.kind = "error") =>
            /\ calls[c].pc = "done"
            /\ calls[c].result.kind = "success"
            /\ calls[c].result.ingest = "failed to start"
            /\ calls[c].result.objectId = calls[c].session.objectId
            /\ calls[c].result.objectId \in ObjectIds

\* C2 witness: the trigger call found no credential after the slot request
\* and the transfer had succeeded.
C2_Witness ==
    \E c \in Uploads :
        /\ calls[c].result.ingest = "failed to start"
        /\ calls[c].settled.error = "AuthError"
        /\ ok(calls[c].s3Status)

\* C3: the stages of an upload are passed in the order REQUESTED,
\* SLOT_ISSUED, TRANSFERRED, terminal stage, none skipped or passed twice; the
\* exchanges are issued in the order slot request, transfer, trigger, the
\* transfer only with a session, the trigger only after a successful
\* transfer; a success result is returned only from a terminal stage.
C3_LinearPipeline ==
    \A c \in Uploads :
        LET rec == calls[c]
            n   == Len(rec.stages)
        IN  /\ \E t \in TerminalStages :
                  IsPrefix(rec.stages,
                           <<"REQUESTED", "SLOT_ISSUED", "TRANSFERRED", t>>)
            /\ IsPrefix([i \in DOMAIN rec.log |-> rec.log[i].endpoint],
                        <<"POST /vault/{id}/upload", "PUT uploadUrl", IngestEndpoint>>)
            /\ Len(rec.log) >= 2 => (n >= 2 /\ rec.session \in Sessions)
            /\ Len(rec.log) >= 3 => (n >= 3 /\ ok(rec.s3Status))
            /\ rec.result.kind = "success" => n = 4

\* C3 witness: an upload returned from INGEST_TRIGGERED after three exchanges.
C3_Witness ==
    \E c \in Uploads :
        /\ calls[c].result.kind = "success"
        /\ calls[c].stages[4] = "INGEST_TRIGGERED"
        /\ Len(calls[c].log) = 3

\* No source holds a key: the environment variables are unset or empty, no
\* auth record of kind "api" holds one, the configuration holds none.
NoCredential ==
    /\ ~Truthy(processEnv.THURGOOD_API_KEY)
    /\ ~Truthy(processEnv.CASEDEV_API_KEY)
    /\ ~(authStore.type = "api" /\ Truthy(authStore.key))
    /\ config \notin Keys

\* Call c runs, in this step, up to and including its first request() or
\* uploadFile() call.
FirstRequestStep(c) ==
    /\ calls[c].pc \in {"idle", "read", "stat"}
    /\ calls'[c].pc \notin {"idle", "read", "stat"}

\* C4 as claimed: with no credential resolvable, every operation fails with
\* an AuthError and has issued no network exchange.
C4_AlwaysAuthError ==
    [][NoCredential =>
        \A c \in CallIds : FirstRequestStep(c) =>
            /\ calls'[c].pc = "done"
            /\ calls'[c].result = Error("AuthError")
            /\ calls'[c].log = <<>>]_vars

\* What an operation may end with when no source holds a key.
NoCredentialOutcomes(rec) ==
    {Error("AuthError")}
        \cup (IF rec.op \in {"transcribe", "ocr_download"}
              THEN {ValidationError} ELSE {})
        \cup (IF rec.op = "upload" THEN {Error("FsError")} ELSE {})
        \cup (IF authStore.type = Throws THEN {Error("AuthStoreError")} ELSE {})
        \cup (IF authStore.type # Throws /\ config = Throws
              THEN {Error("ConfigError")} ELSE {})

\* C4 amended: with no credential resolvable, no operation issues a network
\* exchange; it ends with an AuthError at its first request, unless a local
\* check ended it before (the transcribe tool's entry-mode validation, the
\* OCR download's pdf save-target check, the upload's file read) or the
\* auth-store or configuration lookup itself threw, whose error is raised
\* in place of the AuthError.
C4_NoExchangeWithoutCredential ==
    [][NoCredential =>
        \A c \in CallIds : FirstRequestStep(c) =>
            /\ calls'[c].pc = "done"
            /\ calls'[c].result \in NoCredentialOutcomes(calls'[c])
            /\ calls'[c].log = <<>>]_vars

\* C4 witness: an operation ended with an AuthError, no exchange issued, no
\* source holding a key.
C4_Witness ==
    \E c \in CallIds :
        /\ calls[c].result = Error("AuthError")
        /\ calls[c].log = <<>>
        /\ NoCredential

\* The value of the highest-precedence source present: the environment (its
\* first variable that holds a key), else the auth record of kind "api", else
\* the configuration field.
HighestPrecedence(e, a, c) ==
    IF Truthy(e.THURGOOD_API_KEY) THEN e.THURGOOD_API_KEY
    ELSE IF Truthy(e.CASEDEV_API_KEY) THEN e.CASEDEV_API_KEY
    ELSE IF a.type = "api" THEN a.key
    ELSE IF c \in Keys THEN c
    ELSE Undefined

\* C5 as claimed: whatever sources are present together, a key returned by
\* resolve() is the value of the highest-precedence source present,
\* environment before auth record before configuration.
C5_HighestPrecedenceWins ==
    resolved.tag = "return" =>
        resolved.val = HighestPrecedence(processEnv, authStore, config)

\* C6 as claimed: when THURGOOD_API_KEY supplies no key (unset or empty) and
\* CASEDEV_API_KEY holds one, resolve() returns the CASEDEV_API_KEY value.
C6_CasedevWhenThurgoodSuppliesNone ==
    (resolved.tag # "none"
        /\ ~Truthy(processEnv.THURGOOD_API_KEY)
        /\ Truthy(processEnv.CASEDEV_API_KEY)) =>
        resolved = Return(processEnv.CASEDEV_API_KEY)

\* C7 as claimed: resolve() never throws, whatever the state of the
\* environment, the auth store and the configuration, a failing lookup
\* included; it returns a credential or absent. (That it leaves the three
\* sources unchanged holds: Resolve changes none of them.)
C7_NeverThrows == resolved.tag # "throw"

\* C8: every request carries the key that getApiKey yields from the sources
\* as they are when the request starts, also the later requests of one
\* operation; the blob transfer carries no key.
C8_FreshCredentialPerRequest ==
    [][\A c \in CallIds :
        Len(calls'[c].log) > Len(calls[c].log) =>
            LET sent == calls'[c].log[Len(calls'[c].log)]
            IN  IF sent.endpoint = "PUT uploadUrl"
                THEN sent.bearer = Undefined
                ELSE /\ Truthy(sent.bearer)
                     /\ Return(sent.bearer) = getApiKey(processEnv, authStore, config)]_vars

\* C8 witness: the key was rotated between the slot request and the indexing
\* trigger of one upload, and the trigger carried the new key.
C8_Witness ==
    \E c \in Uploads :
        /\ Len(calls[c].log) = 3
        /\ calls[c].log[1].bearer # calls[c].log[3].bearer
        /\ calls[c].result.ingest = "started"

\* The timeout configured for a call: the one its tool passes, else the default.
ConfiguredTimeout(rec) ==
    IF rec.op = "research" THEN researchTimeout(rec.params.mode)
    ELSE IF rec.op = "transcribe" THEN TranscribeTimeout
    ELSE DefaultTimeout

\* C9: a request whose timer fired while its fetch was in flight is aborted,
\* and the only way it settles is a TimeoutError carrying the timeout
\* configured for that call.
C9_TimeoutCarriesConfiguredTimeout ==
    [][\A c \in CallIds :
        calls[c].ex.phase = "aborted" =>
            \/ calls'[c].ex.phase = "aborted" /\ calls'[c].result.kind = "none"
            \/ calls'[c].settled = TimeoutError(ConfiguredTimeout(calls[c]))]_vars

\* C9 witness: a research request in mode "pro" timed out.
C9_Witness ==
    \E c \in CallIds :
        /\ calls[c].op = "research"
        /\ calls[c].result = TimeoutError(ProTimeout)

\* C10: a deadline timer is armed only while the request() call that created
\* it awaits its fetch: no settled call, on whatever exit path, leaves one.
C10_TimersWithinCalls ==
    \A c \in CallIds :
        calls[c].ex.timer =>
            /\ InRequest(c)
            /\ calls[c].ex.phase = "fetch"
            /\ calls[c].result.kind = "none"

\* C10 witness: one call has thrown a network error, its timer cleared, while
\* another call is in flight with its timer armed.
C10_Witness ==
    \E c, d \in CallIds :
        /\ calls[c].result = Error("NetworkError")
        /\ ~calls[c].ex.timer
        /\ calls[d].ex.phase = "fetch"
        /\ calls[d].ex.timer

\* C11 as claimed: the deadline covers the whole exchange: as long as a
\* request() call has sent its request and has not settled, while the
\* response is awaited and while its body is read, its deadline timer is
\* armed (or has fired and aborted it), so that a stalled exchange is ended
\* by the timeout.
C11_DeadlineCoversExchange ==
    \A c \in CallIds :
        (InRequest(c) /\ calls[c].ex.phase \in {"fetch", "body"}) =>
            calls[c].ex.timer

\* The bodies an API error may carry: the text read, or the placeholder.
ErrorTexts == {"text", "Unknown error"}

\* C12: a request answered with a non-success status settles, once the body
\* was read or its read failed, with an HttpError carrying that status and
\* the text read or the placeholder, never with the read's own failure.
C12_HttpErrorKeepsStatus ==
    [][\A c \in CallIds :
        (/\ InRequest(c)
         /\ calls[c].ex.phase = "body"
         /\ ~ok(calls[c].ex.status)
         /\ calls'[c] # calls[c]) =>
            \E b \in ErrorTexts :
                calls'[c].settled = HttpError(calls[c].ex.status, b)]_vars

\* C12 witness: a request answered 500 whose body could not be read threw
\* the HttpError with status 500 and the placeholder text.
C12_Witness ==
    \E c \in CallIds :
        /\ calls[c].op = "vault_list"
        /\ calls[c].result = HttpError(500, "Unknown error")

\* C13: within one invocation no exchange is issued twice: the endpoints of
\* the exchanges an invocation has sent are pairwise different, whatever
\* failed, so a failed request is never re-issued and one upload session
\* sees at most one transfer.
C13_NoExchangeReissued ==
    \A c \in CallIds :
        \A i, j \in DOMAIN calls[c].log :
            i # j => calls[c].log[i].endpoint # calls[c].log[j].endpoint

\* C13 witness: the transfer of an upload was rejected by the network and
\* the upload ended with that error after its one attempt.
C13_Witness ==
    \E c \in Uploads :
        /\ calls[c].result = Error("NetworkError")
        /\ calls[c].stages = <<"REQUESTED", "SLOT_ISSUED">>
        /\ Len(calls[c].log) = 2
        /\ calls[c].log[2].endpoint = "PUT uploadUrl"

\* Whether the caller of an upload requested auto-indexing:
\* params.auto_index, true when it gave none.
Requested(rec) == Coalesce(rec.params.auto_index, "true") = "true"

\* C14 as claimed: once the transfer of an upload has succeeded, the
\* indexing trigger is called if and only if the session indicates a next
\* step and the caller requested auto-indexing (by default it did); with no
\* trigger call the ingestion outcome is "skipped".
C14_TriggerIffRequested ==
    [][\A c \in CallIds :
        (/\ calls[c].op = "upload"
         /\ calls[c].pc = "put"
         /\ calls'[c].pc # "put"
         /\ ok(calls'[c].s3Status)) =>
            IF Truthy(calls[c].session.next_step) /\ Requested(calls[c])
            THEN \/ calls'[c].pc = "ingest"
                 \/ calls'[c].result.ingest = "failed to start"
            ELSE calls'[c].result.ingest = "skipped"]_vars

\* C15 as claimed: a successful upload result holds the session's objectId,
\* the size of the file in bytes, an ingestion outcome of the three, and an
\* auto-index flag equal to what the caller requested, whatever the slot
\* response carries.
C15_ResultContract ==
    \A c \in Uploads :
        calls[c].result.kind = "success" =>
            /\ calls[c].result.objectId = calls[c].session.objectId
            /\ calls[c].result.ingest \in {"started", "skipped", "failed to start"}
            /\ calls[c].result.autoIndex = Requested(calls[c])
            /\ calls[c].result.size = calls[c].size

\* The searches whose request was sent.
SearchesSent == {c \in CallIds : calls[c].op = "search" /\ calls[c].log # <<>>}

\* C16: the topK a search request carries lies in 1..100: a top_k below 1
\* is sent as 1, one above 100 as 100, one in range unchanged, and an
\* omitted top_k as 10.
C16_TopKClamped ==
    \A c \in SearchesSent :
        LET params == calls[c].params
            topK   == calls[c].body.topK
        IN  /\ topK \in 1..100
            /\ ~Has(params, "top_k") => topK = 10
            /\ Has(params, "top_k") =>
                  /\ params.top_k < 1 => topK = 1
                  /\ params.top_k > 100 => topK = 100
                  /\ params.top_k \in 1..100 => topK = params.top_k

\* C16 witness: searches were sent with top_k 500 and 0, carrying topK 100
\* and 1; here the one of 0.
C16_Witness ==
    \E c \in SearchesSent :
        /\ Has(calls[c].params, "top_k")
        /\ calls[c].params.top_k = 0
        /\ calls[c].body.topK = 1

\* C17: the method a search request carries is one of the seven methods:
\* the caller's when given, "hybrid" when omitted.
C17_MethodOrHybrid ==
    \A c \in SearchesSent :
        LET params == calls[c].params
        IN  /\ calls[c].body.method \in Methods
            /\ Has(params, "method") => calls[c].body.method = params.method
            /\ ~Has(params, "method") => calls[c].body.method = "hybrid"

\* C17 witness: a search with the method "graph" given was sent with it.
C17_Witness ==
    \E c \in SearchesSent :
        /\ Has(calls[c].params, "method")
        /\ calls[c].params.method = "graph"
        /\ calls[c].body.method = "graph"

\* C18: a search request holds a filters field if and only if a non-empty
\* object_id was given, and filters then holds exactly that object id; with
\* object_id absent or empty the field is not in the request.
C18_FiltersOnlyWhenGiven ==
    \A c \in SearchesSent :
        LET params == calls[c].params
            given  == Has(params, "object_id") /\ params.object_id # ""
        IN  /\ Has(calls[c].body, "filters") <=> given
            /\ given => calls[c].body.filters = [object_id |-> params.object_id]

\* C18 witness: a search with an empty object_id was sent without filters.
C18_Witness ==
    \E c \in SearchesSent :
        /\ Has(calls[c].params, "object_id")
        /\ calls[c].params.object_id = ""
        /\ ~Has(calls[c].body, "filters")

\* The searches that have ended.
SearchesDone == {c \in CallIds : calls[c].op = "search" /\ calls[c].pc = "done"}

\* Whether a search response holds no chunk: no chunks field or an empty one.
ZeroChunks(response) == ~Has(response, "chunks") \/ response.chunks = <<>>

\* C19: a search whose request succeeded with a response of zero chunks
\* returns the "No results found" result with result count 0, and a search
\* ends in an error only when its request failed.
C19_NoResultsIsNoError ==
    \A c \in SearchesDone :
        /\ (calls[c].settled = Success /\ ZeroChunks(calls[c].response)) =>
              /\ calls[c].result.kind = "success"
              /\ calls[c].result.title = "No results found"
              /\ calls[c].result.resultCount = 0
        /\ calls[c].result.kind # "success" =>
              /\ calls[c].settled.kind = "error"
              /\ calls[c].result = calls[c].settled

\* C19 witness: a search answered without a chunks field returned the "No
\* results found" result.
C19_Witness ==
    \E c \in SearchesDone :
        /\ calls[c].settled = Success
        /\ ~Has(calls[c].response, "chunks")
        /\ calls[c].result.title = "No results found"

\* C20: the result of a search holds for every chunk returned a confidence,
\* the rounded percentage of the chunk's hybridScore when it has one, else of
\* its score when it has one, else of 0.
C20_ConfidenceFromEffectiveScore ==
    \A c \in SearchesDone :
        (calls[c].settled = Success /\ ~ZeroChunks(calls[c].response)) =>
            LET chunks == calls[c].response.chunks
                conf   == calls[c].result.confidence
            IN  /\ Len(conf) = Len(chunks)
                /\ \A i \in DOMAIN chunks :
                      IF Has(chunks[i], "hybridScore")
                      THEN conf[i] = roundPercent(chunks[i].hybridScore)
                      ELSE IF Has(chunks[i], "score")
                      THEN conf[i] = roundPercent(chunks[i].score)
                      ELSE conf[i] = 0

\* C20 witness: a result of two chunks, the first with a hybridScore of 0
\* and a score, the second with neither: both confidences are 0.
C20_Witness ==
    \E c \in SearchesDone :
        /\ calls[c].result.resultCount = 2
        /\ Has(calls[c].response.chunks[1], "hybridScore")
        /\ Has(calls[c].response.chunks[1], "score")
        /\ calls[c].response.chunks[1].hybridScore = 0
        /\ calls[c].response.chunks[2] = <<>>
        /\ calls[c].result.confidence = <<0, 0>>

\* C21: the result of a search lists the chunks of the response in the
\* order the backend sent them, one entry per chunk: none dropped,
\* duplicated or moved, a chunk of higher confidence after one of lower
\* confidence included.
C21_ChunksInBackendOrder ==
    \A c \in SearchesDone :
        (calls[c].settled = Success /\ ~ZeroChunks(calls[c].response)) =>
            /\ calls[c].result.entries = calls[c].response.chunks
            /\ calls[c].result.resultCount = Len(calls[c].response.chunks)

\* C21 witness: a response of two chunks, the one without a score before
\* the one with a hybridScore of 0.874, listed in that order.
C21_Witness ==
    \E c \in SearchesDone :
        /\ calls[c].result.resultCount = 2
        /\ calls[c].result.entries[1] = <<>>
        /\ Has(calls[c].result.entries[2], "hybridScore")
        /\ calls[c].result.entries[2].hybridScore = 874
        /\ calls[c].result.confidence = <<0, 87>>

\* The transcription submits.
Transcribes == {c \in CallIds : calls[c].op = "transcribe"}

\* The caller gave a complete vault pair: vault_id and object_id.
VaultPair(params) == params.vault_id /\ params.object_id

\* C22: a transcription submit with neither a complete vault pair nor an
\* audio_url has ended with the ValidationError and has sent no request.
C22_NeitherModeRejected ==
    \A c \in Transcribes :
        (~VaultPair(calls[c].params) /\ ~calls[c].params.audio_url) =>
            /\ calls[c].pc = "done"
            /\ calls[c].result = ValidationError
            /\ calls[c].log = <<>>

\* C22 witness: a submit with a vault_id but no object_id and no audio_url
\* was rejected.
C22_Witness ==
    \E c \in Transcribes :
        /\ calls[c].params.vault_id
        /\ ~calls[c].params.object_id
        /\ ~calls[c].params.audio_url
        /\ calls[c].result = ValidationError

\* C23 as claimed: a transcription submit with both a complete vault pair
\* and an audio_url has ended with the ValidationError and has sent no
\* request.
C23_BothModesRejected ==
    \A c \in Transcribes :
        (VaultPair(calls[c].params) /\ calls[c].params.audio_url) =>
            /\ calls[c].pc = "done"
            /\ calls[c].result = ValidationError
            /\ calls[c].log = <<>>

\* The OCR downloads.
OcrDownloads == {c \in CallIds : calls[c].op = "ocr_download"}

\* The errors request() raises before any exchange: no key, or a lookup of
\* the key that threw.
CredentialErrors ==
    {Error("AuthError"), Error("AuthStoreError"), Error("ConfigError")}

\* The download request of call c was issued: sent, or refused by the
\* request executor for lack of a key.
DownloadIssued(c) ==
    \/ /\ Len(calls[c].log) = 1
       /\ calls[c].log[1].endpoint = "GET /ocr/v1/{jobId}/download/{format}"
    \/ calls[c].log = <<>> /\ calls[c].result \in CredentialErrors

\* C24: an OCR download of format "pdf" with no save target has ended with
\* the ValidationError, with no request issued and no file written; of any
\* other format (text when omitted), or with a save target, its request is
\* issued.
C24_PdfNeedsSaveTarget ==
    \A c \in OcrDownloads :
        IF calls[c].params.format = "pdf" /\ ~calls[c].params.save_to
        THEN /\ calls[c].pc = "done"
             /\ calls[c].result = ValidationError
             /\ calls[c].log = <<>>
             /\ ~calls[c].written
        ELSE /\ calls[c].result # ValidationError
             /\ DownloadIssued(c)

\* C24 witness: a pdf download without a save target was rejected locally.
C24_Witness ==
    \E c \in OcrDownloads :
        /\ calls[c].params.format = "pdf"
        /\ ~calls[c].params.save_to
        /\ calls[c].result = ValidationError
        /\ calls[c].log = <<>>

\* The research submissions.
Researches == {c \in CallIds : calls[c].op = "research"}

\* C25 as claimed: the timeout of a research request is the one of the
\* model it sends: 60000 ms for "fast", 180000 ms for "normal" (also sent
\* when the caller gave no mode), 360000 ms for "pro".
C25_TimeoutFollowsModelSent ==
    \A c \in Researches :
        calls[c].ex.phase = "fetch" =>
            /\ calls[c].body.model = "fast" => calls[c].ex.timeout = 60000
            /\ calls[c].body.model = "normal" => calls[c].ex.timeout = 180000
            /\ calls[c].body.model = "pro" => calls[c].ex.timeout = 360000

\* The status polls.
Polls == {c \in CallIds : calls[c].op \in PollTools}

\* C27: a poll issues one status request and ends with its response,
\* whatever the status: it returns the status the backend holds as the
\* response is given, a status that changed since an earlier poll included,
\* and never sends a second request.
C27_PollReturnsCurrentStatus ==
    [][\A c \in CallIds :
        (calls[c].op \in PollTools /\ calls'[c] # calls[c]) =>
            /\ Len(calls'[c].log) <= 1
            /\ calls[c].ex.phase = "body" =>
                  /\ calls'[c].pc = "done"
                  /\ Len(calls'[c].log) = 1
                  /\ calls'[c].result.kind = "success" =>
                        calls'[c].result.jobStatus = jobs[JobKind(calls[c].op)]]_vars

\* C27 witness: two polls of the OCR job, one returned "processing" and
\* ended there, the other returned "completed" after the job had moved on.
C27_Witness ==
    \E c, d \in Polls :
        /\ calls[c].op = "ocr_status" /\ calls[d].op = "ocr_status"
        /\ calls[c].result.jobStatus = "processing"
        /\ calls[d].result.jobStatus = "completed"
        /\ Len(calls[c].log) = 1 /\ Len(calls[d].log) = 1

\* C28: an OCR download is refused locally only for format "pdf" without a
\* save target; otherwise, whatever the status of the job, its request is
\* sent, and an error of the request is the error the download ends with.
C28_DownloadNotGatedOnStatus ==
    \A c \in OcrDownloads :
        LET local == calls[c].params.format = "pdf" /\ ~calls[c].params.save_to
        IN  /\ (calls[c].log = <<>>) <=> local
            /\ (calls[c].result = ValidationError) <=> local
            /\ calls[c].settled.kind = "error" => calls[c].result = calls[c].settled

\* C28 witness: a download sent while the job was still pending, refused by
\* the backend with 403, ended with that HttpError.
C28_Witness ==
    \E c \in OcrDownloads :
        /\ jobs.ocr = "pending"
        /\ Len(calls[c].log) = 1
        /\ calls[c].result = HttpError(403, "text")

\* The polls that returned a result.
PollsReturned ==
    {c \in Polls : calls[c].pc = "done" /\ calls[c].result.kind = "success"}

\* C26: polls of one job that were answered while the job had the same
\* status (a status, once left, does not come back) hold identical results,
\* whichever call made them, earlier or later and whatever happened to
\* other polls in between; and a step of a poll changes neither the jobs,
\* nor the credential sources, nor any other invocation.
C26_PollIdempotentStateless ==
    [][/\ \A c, d \in PollsReturned' :
            (/\ calls'[c].op = calls'[d].op
             /\ calls'[c].response = calls'[d].response) =>
                calls'[c].result = calls'[d].result
       /\ \A c \in CallIds :
            ((calls[c].op \in PollTools \/ calls'[c].op \in PollTools)
                /\ calls'[c] # calls[c]) =>
                /\ jobs' = jobs
                /\ credVars' = credVars
                /\ \A d \in CallIds \ {c} : calls'[d] = calls[d]]_vars

\* C26 witness: two polls of the transcription job, both answered while it
\* was processing, returned the same result.
C26_Witness ==
    \E c, d \in PollsReturned :
        /\ c # d
        /\ calls[c].op = "transcribe_status" /\ calls[d].op = "transcribe_status"
        /\ calls[c].response.status = "processing"
        /\ calls[d].response.status = "processing"
        /\ calls[c].result = calls[d].result

\* The errors the request executor raises: no key, a timeout, an API error.
ExecutorErrors == {"AuthError", "TimeoutError", "HttpError"}

\* C29: when a request() call of an operation raises an AuthError, a
\* TimeoutError or an HttpError, the operation ends in that step with that
\* same error as its result, having sent nothing more and written no file;
\* the one exception is the indexing trigger of an upload, the request made
\* after the transfer.
C29_ExecutorErrorsPropagate ==
    [][\A c \in CallIds :
        (/\ calls'[c].settled # calls[c].settled
         /\ calls'[c].settled.error \in ExecutorErrors
         /\ ~(calls'[c].op = "upload" /\ Len(calls'[c].stages) >= 3)) =>
            /\ calls'[c].pc = "done"
            /\ calls'[c].result = calls'[c].settled
            /\ calls'[c].log = calls[c].log
            /\ ~calls'[c].written]_vars

\* C29 witness: the format tool's request was answered 500; the tool ended
\* with that HttpError and wrote no file.
C29_Witness ==
    \E c \in CallIds :
        /\ calls[c].op = "format"
        /\ calls[c].result = HttpError(500, "text")
        /\ Len(calls[c].log) = 1
        /\ ~calls[c].written

\* C30 as claimed: every exchange an operation has issued, the blob
\* transfer of an upload and a request made with custom headers included,
\* carries a bearer key in its Authorization header.
C30_EveryExchangeBearsKey ==
    \A c \in CallIds :
        \A i \in DOMAIN calls[c].log : calls[c].log[i].bearer \in Keys

\* The call was made with a custom Authorization header.
CustomAuthorization(rec) ==
    /\ Has(rec.params, "headers")
    /\ Has(rec.params.headers, "Authorization")

\* C30 amended: every exchange issued through request() or uploadFile()
\* carries in its Authorization header the key resolved for that exchange,
\* other custom headers given or not, unless the caller's headers hold an
\* Authorization header themselves, which is then the one sent; the blob
\* transfer of an upload carries no key.
C30_ExecutorExchangesBearKey ==
    [][\A c \in CallIds :
        Len(calls'[c].log) > Len(calls[c].log) =>
            LET sent == calls'[c].log[Len(calls'[c].log)]
            IN  IF sent.endpoint = "PUT uploadUrl"
                THEN sent.bearer = Undefined
                ELSE IF CustomAuthorization(calls'[c])
                THEN sent.bearer = calls'[c].params.headers["Authorization"]
                ELSE /\ sent.bearer \in Keys
                     /\ getApiKey(processEnv, authStore, config)
                            = Return(sent.bearer)]_vars

\* C30 witness: request() called with the custom header X-Trace sent its
\* exchange with the bearer key k2.
C30_Witness ==
    \E c \in CallIds :
        /\ calls[c].op = "request"
        /\ Has(calls[c].params.headers, "X-Trace")
        /\ Len(calls[c].log) = 1
        /\ calls[c].log[1].bearer = "k2"

\* The upload u has succeeded, the blob storage holds the body of its
\* transfer under the object id it returned, and the download d of that
\* object id was served the stored bytes and has succeeded.
RoundTrip(u, d) ==
    /\ calls[u].op = "upload" /\ calls[u].result.kind = "success"
    /\ calls[d].op = "vault_download" /\ calls[d].result.kind = "success"
    /\ calls[d].params.object_id = calls[u].result.objectId
    /\ vault[calls[u].result.objectId] = <<calls[u].transfer.body>>
    /\ <<calls[d].response>> = vault[calls[u].result.objectId]

\* C31: a file uploaded and then downloaded under the object id the upload
\* returned is saved with the bytes of the original file, the same in
\* number and in content, when the blob storage stored what it was sent and
\* served what it stored.
C31_RoundTripKeepsBytes ==
    \A u, d \in CallIds :
        RoundTrip(u, d) =>
            /\ Len(calls[d].saved) = 1
            /\ Len(calls[d].saved[1]) = Len(disk)
            /\ calls[d].saved[1] = disk

\* C31 witness: a file of a text byte and a byte that is no text has made
\* the round trip.
C31_Witness ==
    /\ disk = <<65, 200>>
    /\ \E u, d \in CallIds : RoundTrip(u, d) /\ calls[d].saved = <<disk>>

\* C32: whatever the interleaving of the operations in flight, a step
\* changes the record of one call only and nothing that another call reads,
\* and an exchange is aborted only in a step that fires the deadline timer
\* of its own call.
C32_CallsIndependent ==
    [][\A c \in CallIds :
        calls'[c] # calls[c] =>
            /\ \A d \in CallIds \ {c} : calls'[d] = calls[d]
            /\ UNCHANGED <<credVars, jobs, disk, vault>>
            /\ (calls'[c].ex.phase = "aborted" /\ calls[c].ex.phase # "aborted")
                  => calls[c].ex.timer /\ ~calls'[c].ex.timer]_vars

\* C32 witness: the deadline of one call fired and ended it with the
\* timeout error while an upload running beside it succeeded.
C32_Witness ==
    \E c, d \in CallIds :
        /\ calls[c].op \in PollTools \cup {"search"}
        /\ calls[c].result.error = "TimeoutError"
        /\ calls[d].op = "upload"
        /\ calls[d].result.kind = "success"
        /\ Len(calls[d].log) = 3

\* C33: once the blob transfer of an upload has succeeded, the steps of the
\* upload leave the stored objects as they are and issue no exchange but, at
\* most once, the indexing trigger: in every state from TRANSFERRED on, the
\* three terminal states included, the upload has sent the slot request, the
\* transfer and at most the trigger.
C33_NoCompensation ==
    [][\A c \in CallIds :
        (calls'[c].op = "upload" /\ Len(calls'[c].stages) >= 3) =>
            /\ vault' = vault
            /\ Len(calls'[c].log) \in {2, 3}
            /\ calls'[c].log[2].endpoint = "PUT uploadUrl"
            /\ Len(calls'[c].log) = 3 =>
                  calls'[c].log[3].endpoint = IngestEndpoint
            /\ Len(calls'[c].stages) = 4 =>
                  /\ calls'[c].stages[4] \in TerminalStages
                  /\ calls'[c].result.kind = "success"]_vars

\* C33 witness: an upload has ended in INGEST_FAILED_SOFT, its trigger
\* having failed, and the object it transferred is still stored.
C33_Witness ==
    \E c \in CallIds :
        /\ calls[c].op = "upload"
        /\ calls[c].stages[Len(calls[c].stages)] = "INGEST_FAILED_SOFT"
        /\ Len(calls[c].log) = 3
        /\ vault[calls[c].session.objectId] = <<calls[c].transfer.body>>

\* The content type C34 names for the extensions of the model: the table's
\* entry whatever the case of the letters, else the generic binary type.
ExpectedContentType(extname) ==
    CASE extname \in {".pdf", ".PDF"} -> "application/pdf"
      [] extname = ".Mp3" -> "audio/mpeg"
      [] extname = ".jpeg" -> "image/jpeg"
      [] OTHER -> "application/octet-stream"

\* C34: the content type declared in the slot request of an upload and the
\* Content-Type of its blob transfer are the same value, the table's entry
\* for the file's extension taken case-insensitively, and
\* application/octet-stream for an extension outside the table or missing.
C34_OneContentType ==
    \A c \in Uploads :
        /\ Len(calls[c].log) >= 1 =>
              calls[c].body.contentType
                  = ExpectedContentType(calls[c].params.extname)
        /\ Len(calls[c].log) >= 2 =>
              calls[c].transfer.contentType = calls[c].body.contentType

\* C34 witness: a file named with the extension .PDF is transferred as
\* application/pdf.
C34_Witness ==
    \E c \in Uploads :
        /\ calls[c].params.extname = ".PDF"
        /\ Len(calls[c].log) >= 2
        /\ calls[c].transfer.contentType = "application/pdf"

\* C37 as claimed: whenever an upload waits for a remote side to answer its
\* slot request, its blob transfer or its indexing trigger, a deadline timer
\* is armed for the exchange or has fired and aborted it, so that the upload
\* ends within a bounded time.
C37_EveryExchangeHasDeadline ==
    \A c \in Uploads :
        (calls[c].pc = "put" \/ calls[c].ex.phase = "fetch") =>
            calls[c].ex.timer

\* C38 as claimed: the size declared in the slot request of an upload is
\* the number of bytes the upload transfers to the blob storage.
C38_DeclaredSizeIsTransferred ==
    \A c \in Uploads :
        Len(calls[c].log) >= 2 =>
            calls[c].body.sizeBytes = Len(calls[c].transfer.body)

\* The transcription polls that returned a result.
TranscriptsReturned ==
    {c \in CallIds : calls[c].op = "transcribe_status"
                      /\ calls[c].result.kind = "success"}

\* C35: a transcription poll renders a transcript section only for the
\* status completed: one entry per utterance, in order, when the response
\* holds utterances and they are not empty; else the flat text when the
\* response holds a text that is not empty; else nothing, the poll succeeding
\* all the same.  For the status error the result holds the failure notice
\* and no transcript, for any other status the still-processing notice and
\* no transcript.
C35_TranscriptOnlyWhenCompleted ==
    \A c \in TranscriptsReturned :
        LET r   == calls[c].response
            out == calls[c].result
            uts == IF Has(r, "utterances") THEN r.utterances ELSE <<>>
            txt == IF Has(r, "text") THEN r.text ELSE ""
        IN  /\ out.section <=> r.status = "completed"
            /\ r.status = "completed" =>
                  /\ out.notice = ""
                  /\ uts # <<>> =>
                        /\ Len(out.transcript) = Len(uts)
                        /\ \A i \in 1..Len(uts) :
                              /\ out.transcript[i].text = uts[i].text
                              /\ out.transcript[i].speaker = uts[i].speaker
                  /\ (uts = <<>> /\ txt # "") =>
                        out.transcript = <<Line("", txt)>>
                  /\ (uts = <<>> /\ txt = "") => out.transcript = <<>>
            /\ r.status = "error" =>
                  out.transcript = <<>> /\ out.notice = "failed"
            /\ r.status \notin {"completed", "error"} =>
                  out.transcript = <<>> /\ out.notice = "still processing"

\* C35 witness: the poll of a completed job whose response holds a text
\* and two utterances returned the two utterances.
C35_Witness ==
    \E c \in TranscriptsReturned :
        /\ calls[c].response.status = "completed"
        /\ Has(calls[c].response, "text")
        /\ Len(calls[c].result.transcript) = 2
        /\ calls[c].result.transcript[2].text = "morning"

\* C36: the body of a transcription submit request is that of one entry
\* mode: vault_id, object_id and format, the format "json" unless the caller
\* named one, and no audio_url; or audio_url and nothing of the vault mode.
\* No body holds both a vault pair and an audio_url, nor one half of a pair.
C36_BodyOfOneMode ==
    \A c \in Transcribes :
        calls[c].log # <<>> =>
            LET body == calls[c].body
            IN  \/ /\ DOMAIN body = {"vault_id", "object_id", "format"}
                   /\ body.vault_id /\ body.object_id
                   /\ body.format = IF calls[c].params.format = Undefined
                                    THEN "json" ELSE calls[c].params.format
                \/ /\ DOMAIN body = {"audio_url"}
                   /\ body.audio_url

\* C36 witness: a submit given a vault pair and an audio_url was sent with
\* the body of the vault mode, the audio_url left out.
C36_Witness ==
    \E c \in Transcribes :
        /\ calls[c].log # <<>>
        /\ calls[c].params.vault_id /\ calls[c].params.object_id
        /\ calls[c].params.audio_url
        /\ DOMAIN calls[c].body = {"vault_id", "object_id", "format"}

\* The operations that save a payload to a local file.
Savers ==
    {c \in CallIds : calls[c].op \in {"ocr_download", "vault_download", "format"}}

\* C39: an operation that saves its payload touches the local file system
\* only once its request has succeeded, and in its steps after the request:
\* a call whose request has not returned, or has failed, or that was refused
\* before its request, has made no directory and written no file.
C39_SaveOnlyAfterSuccess ==
    [][\A c \in CallIds :
        calls'[c].op \in {"ocr_download", "vault_download", "format"} =>
            /\ (calls'[c].mkdir \/ calls'[c].written \/ calls'[c].saved # <<>>)
                  => /\ calls'[c].settled.kind = "success"
                     /\ Len(calls'[c].log) = 1
            /\ (calls'[c].settled.kind = "error" \/ calls'[c].result = ValidationError)
                  => /\ ~calls'[c].mkdir /\ ~calls'[c].written
                     /\ calls'[c].saved = <<>>
            /\ (calls'[c].mkdir # calls[c].mkdir \/ calls'[c].saved # calls[c].saved)
                  => calls[c].pc \in {"mkdir", "write"}]_vars

\* C39 witness: a vault download whose request was answered with an error
\* status has ended with that error, no directory made and no file written.
C39_Witness ==
    \E c \in Savers :
        /\ calls[c].op = "vault_download"
        /\ calls[c].result.error = "HttpError"
        /\ ~calls[c].mkdir /\ calls[c].saved = <<>>

\* C40: request() ends with the TimeoutError in the steps, and only in the
\* steps, that follow the firing of the call's own deadline timer: a call
\* ended by a missing credential, a network failure, a non-success status
\* or an unreadable body, its timer not having fired, ends with that error,
\* and a call whose timer has fired and aborted its fetch ends with the
\* TimeoutError, never with an HttpError or a result.
C40_TimeoutIffTimerFired ==
    [][\A c \in CallIds :
        /\ calls'[c].settled # calls[c].settled =>
              (calls'[c].settled.error = "TimeoutError"
                  <=> calls[c].ex.phase = "aborted")
        /\ (calls'[c].ex.phase = "aborted" /\ calls[c].ex.phase # "aborted") =>
              /\ calls[c].ex.timer
              /\ calls[c].ex.phase = "fetch"
        /\ calls[c].ex.phase = "aborted" =>
              \/ calls'[c] = calls[c]
              \/ calls'[c].settled.error = "TimeoutError"]_vars

\* C40 witness: a call has ended with the TimeoutError.
C40_Witness ==
    \E c \in CallIds :
        /\ calls[c].pc = "done"
        /\ calls[c].result.error = "TimeoutError"
        /\ calls[c].settled = calls[c].result

====
